---- MODULE Spec2Model ----
(***************************************************************************)
(* A model of the documentation generator: the CodeParser                  *)
(* (src/src/preprocessing/code_parser.py) and the LLMInterface             *)
(* (src/src/ai_engine/llm_interface.py).                                   *)
(*                                                                         *)
(* Python strings are TLA+ strings (Len, \o, SubSeq work on them).  A      *)
(* source text is the sequence of its lines; each line carries its text    *)
(* (src) and what Python's parser makes of it.                             *)
(***************************************************************************)
EXTENDS Integers, Sequences, FiniteSets, TLC

VARIABLES
    tree,          \* CodeParser.tree
    source_lines,  \* CodeParser.source_lines
    op,            \* the operation called last ("init" before any call)
    arg,           \* its argument
    ret,           \* its return value
    use_api,       \* LLMInterface.use_api
    api_key,       \* LLMInterface.api_key
    pc,            \* where generate_documentation stands
    collab,        \* what the text-completion collaborator does in this call
    attempts       \* calls made to the collaborator in this call

vars == <<tree, source_lines, op, arg, ret, use_api, api_key, pc, collab, attempts>>
parserVars == <<tree, source_lines>>
llmVars == <<use_api, api_key, pc, collab, attempts>>

\* ------------------------------------------------------------- bounds
MaxLines == 3       \* lines of a source text, one-call specification
MaxHistLines == 2   \* lines of a source text, call-sequence specification
MaxNameLen == 4     \* characters of a generated function name
MaxDocs == 2        \* assignments that build the mapping given to format_output
MaxDocWords == 2    \* words of a generated document text
MaxInserts == 2     \* element names inserted into a document, one after another

\* ------------------------------------------------------------ Optional
None == [some |-> FALSE]
Some(v) == [some |-> TRUE, val |-> v]
NoRet == [kind |-> "NoRet"]

\* ------------------------------------------------------------- strings
Char(s, i) == SubSeq(s, i, i)

\* `sub in s`
Contains(s, sub) ==
    \E i \in 1..(Len(s) - Len(sub) + 1) : SubSeq(s, i, i + Len(sub) - 1) = sub

\* s.startswith(p)
StartsWith(s, p) == Len(p) <= Len(s) /\ SubSeq(s, 1, Len(p)) = p

UpperChars == "ABCDEFGHIJKLMNOPQRSTUVWXYZ"
LowerChars == "abcdefghijklmnopqrstuvwxyz"
DigitChars == "0123456789"

IsUpper(c) == Len(c) = 1 /\ Contains(UpperChars, c)
IsLower(c) == Len(c) = 1 /\ Contains(LowerChars, c)
IsDigit(c) == Len(c) = 1 /\ Contains(DigitChars, c)

LowerChar(c) ==
    IF IsUpper(c)
    THEN LET i == CHOOSE k \in 1..26 : Char(UpperChars, k) = c IN Char(LowerChars, i)
    ELSE c

UpperChar(c) ==
    IF IsLower(c)
    THEN LET i == CHOOSE k \in 1..26 : Char(LowerChars, k) = c IN Char(UpperChars, i)
    ELSE c

RECURSIVE str_lower(_)
\* str.lower(), a half of the string at a time
str_lower(s) ==
    IF Len(s) <= 1 THEN LowerChar(s)
    ELSE LET mid == Len(s) \div 2
         IN str_lower(SubSeq(s, 1, mid)) \o str_lower(SubSeq(s, mid + 1, Len(s)))

\* str.capitalize(): first character upper, the rest lower
str_capitalize(s) == IF s = "" THEN "" ELSE UpperChar(Head(s)) \o str_lower(Tail(s))

RECURSIVE str_join(_, _)
\* sep.join(parts)
str_join(sep, parts) ==
    IF parts = <<>> THEN ""
    ELSE IF Len(parts) = 1 THEN parts[1]
    ELSE parts[1] \o sep \o str_join(sep, Tail(parts))

RECURSIVE str_split(_, _)
\* s.split(sep) for a one-character separator
str_split(s, sep) ==
    IF ~Contains(s, sep) THEN <<s>>
    ELSE LET i == CHOOSE k \in 1..Len(s) :
                      Char(s, k) = sep /\ \A j \in 1..(k - 1) : Char(s, j) # sep
         IN <<SubSeq(s, 1, i - 1)>> \o str_split(SubSeq(s, i + 1, Len(s)), sep)

RECURSIVE str_replace(_, _, _)
\* s.replace(old, new), old not empty
str_replace(s, old, new) ==
    IF Len(s) < Len(old) THEN s
    ELSE IF StartsWith(s, old)
    THEN new \o str_replace(SubSeq(s, Len(old) + 1, Len(s)), old, new)
    ELSE Head(s) \o str_replace(Tail(s), old, new)

SeqToSet(q) == {q[i] : i \in 1..Len(q)}

\* ---------------------------------------------------------- source text
(* A declared parameter: its name and where it stands in the signature.   *)
Param(n, k) == [name |-> n, kind |-> k]

Line(s, k, d, a, n, ps, r, doc) ==
    [src |-> s, kind |-> k, indent |-> d, async |-> a, name |-> n,
     decl |-> ps, returns |-> r, doc |-> doc]

DefCalc ==
    Line("def calculate_total_price(items, tax_rate): return 0", "def", 0, FALSE,
         "calculate_total_price",
         <<Param("items", "arg"), Param("tax_rate", "arg")>>, None, "")
DefLog ==
    Line("def log(level, *args, **kwargs) -> bool: pass", "def", 0, FALSE,
         "log",
         <<Param("level", "arg"), Param("args", "vararg"), Param("kwargs", "kwarg")>>,
         Some("bool"), "")
DefMove ==
    Line("def move(x, /, y, *, fast): pass", "def", 0, FALSE,
         "move",
         <<Param("x", "posonly"), Param("y", "arg"), Param("fast", "kwonly")>>,
         None, "")
AsyncFetch ==
    Line("async def fetch(url): pass", "def", 0, TRUE,
         "fetch", <<Param("url", "arg")>>, None, "")
ClassCart == Line("class Cart:", "class", 0, FALSE, "Cart", <<>>, None, "")
MethodAdd ==
    Line("    def add(self, item): pass", "def", 1, FALSE,
         "add", <<Param("self", "arg"), Param("item", "arg")>>, None, "")
DocLine ==
    Line("\"\"\"Shopping cart.\"\"\"", "doc", 0, FALSE, "", <<>>, None, "Shopping cart.")
\* a line the grammar rejects
BadLine == Line("def (:", "bad", 0, FALSE, "", <<>>, None, "")
\* a line holding a null byte
NulLine == Line("x = 1<NUL>", "nul", 0, FALSE, "", <<>>, None, "")
\* x = ----...1: nested deeper than the parser's stack (MemoryError, str(e) == '')
DeepUnary == Line("x = ----(...)1", "deep_unary", 0, FALSE, "", <<>>, None, "")
\* x = 1+1+...+1: parses, too deep to build the tree from (RecursionError)
DeepBinop == Line("x = 1+1+(...)+1", "deep_binop", 0, FALSE, "", <<>>, None, "")

Lines ==
    {DefCalc, DefLog, DefMove, AsyncFetch, ClassCart, MethodAdd, DocLine,
     BadLine, NulLine, DeepUnary, DeepBinop}
HistLines == {DefCalc, ClassCart, MethodAdd, BadLine, DeepBinop}

TextsOver(alphabet, n) == UNION {[1..k -> alphabet] : k \in 1..n}
Texts == TextsOver(Lines, MaxLines)
HistTexts == TextsOver(HistLines, MaxHistLines)

\* ------------------------------------------------------------ ast.parse
SyntaxError(lineno, msg) ==
    [ok |-> FALSE, exc |-> "SyntaxError", lineno |-> lineno, msg |-> msg]
OtherError(exc, msg) == [ok |-> FALSE, exc |-> exc, lineno |-> None, msg |-> msg]
NoError == [ok |-> TRUE]

ExpectedBlock(h) ==
    "expected an indented block after class definition on line " \o ToString(h)

RECURSIVE Scan(_, _, _, _)
(* The first failure of the parse, reading the lines in order.  open is    *)
(* "none" at module level, "header" right after the class header on line   *)
(* h, "body" inside a class body.                                          *)
Scan(code, i, open, h) ==
    IF i > Len(code)
    THEN IF open = "header" THEN SyntaxError(Some(Len(code)), ExpectedBlock(h))
         ELSE NoError
    ELSE LET l == code[i] IN
         IF open = "header" /\ l.indent = 0
         THEN SyntaxError(Some(i), ExpectedBlock(h))
         ELSE IF open = "none" /\ l.indent > 0
         THEN SyntaxError(Some(i), "unexpected indent")
         ELSE IF l.kind = "bad" THEN SyntaxError(Some(i), "invalid syntax")
         ELSE IF l.kind = "deep_unary" THEN OtherError("MemoryError", "")
         ELSE IF l.kind = "class" THEN Scan(code, i + 1, "header", i)
         ELSE Scan(code, i + 1, IF l.indent > 0 THEN "body" ELSE "none", h)

\* ast.arguments of a signature
Arguments(decl) ==
    LET names(k) == LET sel == SelectSeq(decl, LAMBDA p : p.kind = k)
                    IN [j \in 1..Len(sel) |-> sel[j].name]
    IN [posonlyargs |-> names("posonly"), args |-> names("arg"),
        vararg |-> names("vararg"), kwonlyargs |-> names("kwonly"),
        kwarg |-> names("kwarg")]

StmtNode(l, i) ==
    IF l.kind = "def"
    THEN [type |-> IF l.async THEN "AsyncFunctionDef" ELSE "FunctionDef",
          name |-> l.name, args |-> Arguments(l.decl), returns |-> l.returns,
          body |-> <<[type |-> "Pass"]>>, lineno |-> i, end_lineno |-> i]
    ELSE IF l.kind = "doc"
    THEN [type |-> "Expr", value |-> l.doc, lineno |-> i, end_lineno |-> i]
    ELSE [type |-> "Assign", lineno |-> i, end_lineno |-> i]

\* the last line of the indented block that starts on line i
RECURSIVE BlockEnd(_, _)
BlockEnd(code, i) ==
    IF i < Len(code) /\ code[i + 1].indent > 0 THEN BlockEnd(code, i + 1) ELSE i

RECURSIVE Statements(_, _, _)
\* the statements of lines i..last, a class taking the indented lines under it
Statements(code, i, last) ==
    IF i > last THEN <<>>
    ELSE LET l == code[i] IN
         IF l.kind = "class"
         THEN LET e == BlockEnd(code, i) IN
              <<[type |-> "ClassDef", name |-> l.name,
                 body |-> [j \in 1..(e - i) |-> StmtNode(code[i + j], i + j)],
                 lineno |-> i, end_lineno |-> e]>>
              \o Statements(code, e + 1, last)
         ELSE <<StmtNode(l, i)>> \o Statements(code, i + 1, last)

\* ast.parse(code): the tree, or the exception raised
ast_parse(code) ==
    IF \E i \in 1..Len(code) : code[i].kind = "nul"
    THEN SyntaxError(None, "source code string cannot contain null bytes")
    ELSE LET e == Scan(code, 1, "none", 0) IN
         IF ~e.ok THEN e
         ELSE IF \E i \in 1..Len(code) : code[i].kind = "deep_binop"
         THEN OtherError("RecursionError",
                         "maximum recursion depth exceeded during ast construction")
         ELSE [ok |-> TRUE,
               tree |-> [type |-> "Module", body |-> Statements(code, 1, Len(code))]]

\* ast.get_docstring(node)
ast_get_docstring(node) ==
    IF node.body # <<>> /\ node.body[1].type = "Expr"
    THEN Some(node.body[1].value)
    ELSE None

\* ast.iter_child_nodes(node)
ChildNodes(node) == IF "body" \in DOMAIN node THEN node.body ELSE <<>>

RECURSIVE Flatten(_)
Flatten(qq) == IF qq = <<>> THEN <<>> ELSE Head(qq) \o Flatten(Tail(qq))

RECURSIVE WalkFrom(_)
\* ast.walk: breadth first, from a queue of nodes
WalkFrom(todo) ==
    IF todo = <<>> THEN <<>>
    ELSE todo \o WalkFrom(Flatten([j \in 1..Len(todo) |-> ChildNodes(todo[j])]))

ast_walk(node) == WalkFrom(<<node>>)

\* ----------------------------------------------------------- CodeParser
\* CodeParser.__init__
NewParser == [tree |-> None, source_lines |-> <<>>]

\* str() of an optional line number in an f-string
FormatLineno(lineno) == IF lineno.some THEN ToString(lineno.val) ELSE "None"

\* lines[a:b], a Python slice with 0 <= a
Slice(q, a, b) ==
    LET hi == IF b < Len(q) THEN b ELSE Len(q)
    IN IF a >= hi THEN <<>> ELSE SubSeq(q, a + 1, hi)

\* validate_syntax that keeps the tree it already holds instead of parsing again
validate_syntax_cached(self, code) ==
    LET r == ast_parse(code) IN
    IF self.tree.some THEN [self |-> self, ret |-> [is_valid |-> TRUE, error_msg |-> None]]
    ELSE IF r.ok
    THEN [self |-> [tree |-> Some(r.tree), source_lines |-> code],
          ret |-> [is_valid |-> TRUE, error_msg |-> None]]
    ELSE [self |-> self, ret |-> [is_valid |-> FALSE, error_msg |-> Some(r.msg)]]

(* CodeParser.validate_syntax: the parser after the call and the pair      *)
(* returned.  self.tree and self.source_lines change on success only.      *)
validate_syntax(self, code) ==
    LET r == ast_parse(code) IN
    IF r.ok
    THEN [self |-> [tree |-> Some(r.tree), source_lines |-> code],
          ret |-> [is_valid |-> TRUE, error_msg |-> None]]
    ELSE IF r.exc = "SyntaxError"
    THEN [self |-> self,
          ret |-> [is_valid |-> FALSE,
                   error_msg |-> Some("Syntax error at line " \o FormatLineno(r.lineno)
                                      \o ": " \o r.msg)]]
    ELSE [self |-> self, ret |-> [is_valid |-> FALSE, error_msg |-> Some(r.msg)]]

\* CodeParser._parse_function
parse_function(node, code) ==
    LET body_lines == Slice(code, node.lineno - 1, node.end_lineno)
    IN [name |-> node.name,
        params |-> node.args.args,
        return_annotation |-> node.returns,
        docstring |-> ast_get_docstring(node),
        line_start |-> node.lineno,
        line_end |-> node.end_lineno,
        body |-> str_join("\n", [j \in 1..Len(body_lines) |-> body_lines[j].src])]

\* CodeParser._parse_class
parse_class(node, code) ==
    LET defs == SelectSeq(node.body, LAMBDA item : item.type = "FunctionDef")
    IN [name |-> node.name,
        methods |-> [j \in 1..Len(defs) |-> parse_function(defs[j], code)],
        docstring |-> ast_get_docstring(node),
        line_start |-> node.lineno,
        line_end |-> node.end_lineno]

\* the loop of extract_functions over self.tree.body
FunctionsOf(t, code) ==
    LET defs == SelectSeq(t.body, LAMBDA node : node.type = "FunctionDef")
    IN [j \in 1..Len(defs) |-> parse_function(defs[j], code)]

\* the loop of extract_classes over ast.walk(self.tree)
ClassesOf(t, code) ==
    LET defs == SelectSeq(ast_walk(t), LAMBDA node : node.type = "ClassDef")
    IN [j \in 1..Len(defs) |-> parse_class(defs[j], code)]

(* CodeParser.extract_functions: parses code only when self.tree is unset. *)
extract_functions(self, code) ==
    LET v == IF ~self.tree.some THEN validate_syntax(self, code)
             ELSE [self |-> self, ret |-> [is_valid |-> TRUE, error_msg |-> None]]
    IN IF ~v.ret.is_valid THEN [self |-> v.self, ret |-> <<>>]
       ELSE [self |-> v.self, ret |-> FunctionsOf(v.self.tree.val, code)]

(* CodeParser.extract_classes: parses code only when self.tree is unset.   *)
extract_classes(self, code) ==
    LET v == IF ~self.tree.some THEN validate_syntax(self, code)
             ELSE [self |-> self, ret |-> [is_valid |-> TRUE, error_msg |-> None]]
    IN IF ~v.ret.is_valid THEN [self |-> v.self, ret |-> <<>>]
       ELSE [self |-> v.self, ret |-> ClassesOf(v.self.tree.val, code)]

\* get_structure without the early return for invalid text
get_structure_no_early_return(self, code) ==
    LET v == validate_syntax(self, code)
        f == extract_functions(v.self, code)
        c == extract_classes(f.self, code)
    IN [self |-> c.self,
        ret |-> [functions |-> f.ret, classes |-> c.ret,
                 module_docstring |-> IF c.self.tree.some
                                      THEN ast_get_docstring(c.self.tree.val) ELSE None,
                 total_lines |-> Len(code), is_valid |-> v.ret.is_valid,
                 error_message |-> v.ret.error_msg]]

\* CodeParser.get_structure
get_structure(self, code) ==
    LET v == validate_syntax(self, code) IN
    IF ~v.ret.is_valid
    THEN [self |-> v.self,
          ret |-> [functions |-> <<>>, classes |-> <<>>, module_docstring |-> None,
                   total_lines |-> Len(code), is_valid |-> FALSE,
                   error_message |-> v.ret.error_msg]]
    ELSE LET f == extract_functions(v.self, code)
             c == extract_classes(f.self, code)
         IN [self |-> c.self,
             ret |-> [functions |-> f.ret, classes |-> c.ret,
                      module_docstring |-> ast_get_docstring(c.self.tree.val),
                      total_lines |-> Len(c.self.source_lines), is_valid |-> TRUE,
                      error_message |-> None]]

\* ------------------------------------------------ CodeParser, as actions
Self == [tree |-> tree, source_lines |-> source_lines]

Call(name, code, r) ==
    /\ tree' = r.self.tree
    /\ source_lines' = r.self.source_lines
    /\ op' = name
    /\ arg' = code
    /\ ret' = r.ret
    /\ UNCHANGED llmVars

ValidateSyntax(code) == Call("validate_syntax", code, validate_syntax(Self, code))
ExtractFunctions(code) == Call("extract_functions", code, extract_functions(Self, code))
ExtractClasses(code) == Call("extract_classes", code, extract_classes(Self, code))
GetStructure(code) == Call("get_structure", code, get_structure(Self, code))

LLMIdle ==
    /\ use_api = FALSE
    /\ api_key = None
    /\ pc = "idle"
    /\ collab = "none"
    /\ attempts = 0

(* One CodeParser, called any number of times with any texts.              *)
InitParser ==
    /\ tree = NewParser.tree
    /\ source_lines = NewParser.source_lines
    /\ op = "init"
    /\ arg = <<>>
    /\ ret = NoRet
    /\ LLMIdle

NextParser ==
    \E code \in HistTexts :
        \/ ValidateSyntax(code)
        \/ ExtractFunctions(code)
        \/ ExtractClasses(code)
        \/ GetStructure(code)

SpecParser == InitParser /\ [][NextParser]_vars

(* A fresh CodeParser and one call of get_structure or validate_syntax on  *)
(* a text drawn at the start.                                              *)
InitOnce ==
    /\ tree = NewParser.tree
    /\ source_lines = NewParser.source_lines
    /\ op = "pending"
    /\ arg \in Texts
    /\ ret = NoRet
    /\ LLMIdle

NextOnce ==
    /\ op = "pending"
    /\ \/ GetStructure(arg)
       \/ ValidateSyntax(arg)

SpecOnce == InitOnce /\ [][NextOnce]_vars

\* --------------------------------------------------------- LLMInterface
\* the first j >= i whose character is not in the class, Len(s) + 1 if none
InClass(c, cls) ==
    IF cls = "upper" THEN IsUpper(c) ELSE IF cls = "lower" THEN IsLower(c) ELSE IsDigit(c)

RECURSIVE RunEnd(_, _, _)
RunEnd(s, i, cls) ==
    IF i <= Len(s) /\ InClass(Char(s, i), cls) THEN RunEnd(s, i + 1, cls) ELSE i

IsWordChar(c) == IsUpper(c) \/ IsLower(c) \/ IsDigit(c) \/ c = "_"

\* (?=[A-Z][a-z]|\d|\W|$) at position j
AcronymLookahead(s, j) ==
    \/ j > Len(s)
    \/ IsDigit(Char(s, j))
    \/ ~IsWordChar(Char(s, j))
    \/ IsUpper(Char(s, j)) /\ j + 1 <= Len(s) /\ IsLower(Char(s, j + 1))

(* The length of the match of                                              *)
(*   [A-Z]?[a-z]+|[A-Z]+(?=[A-Z][a-z]|\d|\W|$)|\d+                         *)
(* at position i, 0 when it does not match there: the alternatives in      *)
(* order, each greedy with backtracking.                                   *)
MatchAt(s, i) ==
    LET c == Char(s, i)
        lowAfterCap == RunEnd(s, i + 1, "lower") - (i + 1)
        low == RunEnd(s, i, "lower") - i
        caps == RunEnd(s, i, "upper") - i
        ends == {k \in 1..caps : AcronymLookahead(s, i + k)}
        digits == RunEnd(s, i, "digit") - i
    IN IF IsUpper(c) /\ lowAfterCap >= 1 THEN 1 + lowAfterCap
       ELSE IF low >= 1 THEN low
       ELSE IF ends # {} THEN CHOOSE k \in ends : \A m \in ends : m <= k
       ELSE digits

RECURSIVE FindAll(_, _)
\* re.findall of the pattern, scanning from position i
FindAll(s, i) ==
    IF i > Len(s) THEN <<>>
    ELSE LET n == MatchAt(s, i) IN
         IF n = 0 THEN FindAll(s, i + 1)
         ELSE <<SubSeq(s, i, i + n - 1)>> \o FindAll(s, i + n)

\* LLMInterface._split_function_name
split_function_name(name) ==
    IF Contains(name, "_") THEN str_split(name, "_")
    ELSE LET parts == FindAll(name, 1) IN [j \in 1..Len(parts) |-> str_lower(parts[j])]

\* action_templates of _generate_description
action_templates ==
    <<  <<"get", "Retrieves">>, <<"set", "Sets or updates">>,
        <<"calculate", "Calculates">>, <<"compute", "Computes">>,
        <<"process", "Processes">>, <<"validate", "Validates">>,
        <<"check", "Checks">>, <<"find", "Finds">>,
        <<"search", "Searches for">>, <<"create", "Creates">>,
        <<"generate", "Generates">>, <<"build", "Builds">>,
        <<"parse", "Parses">>, <<"format", "Formats">>,
        <<"convert", "Converts">>, <<"transform", "Transforms">>,
        <<"sort", "Sorts">>, <<"filter", "Filters">>,
        <<"load", "Loads">>, <<"save", "Saves">>,
        <<"delete", "Deletes">>, <<"update", "Updates">>,
        <<"add", "Adds">>, <<"remove", "Removes">>  >>

\* dict.get(key, default) on a table of pairs
DictGet(table, key, default) ==
    IF \E j \in 1..Len(table) : table[j][1] = key
    THEN table[CHOOSE j \in 1..Len(table) : table[j][1] = key][2]
    ELSE default

\* [p for p in params if p != 'self']
NonSelf(params) == SelectSeq(params, LAMBDA p : p # "self")

\* the description with the qualifier decided on all parameters, 'self' included
generate_description_counting_self(func_name, name_parts, params) ==
    LET action == IF name_parts # <<>> THEN name_parts[1] ELSE "process"
        action_desc == DictGet(action_templates, action, str_capitalize(action) \o "s")
        obj == str_join(" ", Tail(name_parts))
        d1 == IF Len(name_parts) > 1 THEN action_desc \o " " \o obj
              ELSE action_desc \o " the input data"
        d2 == IF Len(params) > 2 THEN d1 \o " with multiple parameters" ELSE d1
    IN d2 \o "."

\* LLMInterface._generate_description
generate_description(func_name, name_parts, params) ==
    LET action == IF name_parts # <<>> THEN name_parts[1] ELSE "process"
        action_desc == DictGet(action_templates, action, str_capitalize(action) \o "s")
        obj == str_join(" ", Tail(name_parts))
        d1 == IF Len(name_parts) > 1 THEN action_desc \o " " \o obj
              ELSE action_desc \o " the input data"
        d2 == IF Len(NonSelf(params)) > 2 THEN d1 \o " with multiple parameters" ELSE d1
        description == d2 \o "."
        t1 == "\n\nThis function performs " \o action \o " operations"
        t2 == IF Len(name_parts) > 1 THEN t1 \o " on " \o obj ELSE t1
        detailed == t2 \o ". It is designed to handle various input scenarios and provide reliable results."
    IN description \o detailed

\* the buckets with the flag bucket tried before the quantity bucket
generate_param_description_flag_first(param, func_name) ==
    LET param_lower == str_lower(param) IN
    IF param_lower \in {"data", "input", "value"}
    THEN "The input " \o param \o " to be processed"
    ELSE IF param_lower \in {"name", "filename", "file"}
    THEN "The " \o param \o " of the file or resource"
    ELSE IF param_lower \in {"path", "filepath"}
    THEN "The " \o param \o " to the file or directory"
    ELSE IF param_lower \in {"key", "id", "identifier"}
    THEN "Unique " \o param \o " for identification"
    ELSE IF param_lower \in {"options", "config", "settings"}
    THEN "Configuration " \o param \o " for the operation"
    ELSE IF param_lower \in {"items", "list", "array"}
    THEN "Collection of " \o param \o " to process"
    ELSE IF Contains(param_lower, "flag") \/ Contains(param_lower, "enable")
            \/ StartsWith(param_lower, "is_")
    THEN "Boolean flag indicating whether to "
         \o str_replace(str_replace(param, "is_", ""), "_", " ")
    ELSE IF Contains(param_lower, "count") \/ Contains(param_lower, "num")
            \/ Contains(param_lower, "size")
    THEN "The " \o param \o " specifying quantity"
    ELSE "The " \o param \o " parameter"

\* LLMInterface._generate_param_description
generate_param_description(param, func_name) ==
    LET param_lower == str_lower(param) IN
    IF param_lower \in {"data", "input", "value"}
    THEN "The input " \o param \o " to be processed"
    ELSE IF param_lower \in {"name", "filename", "file"}
    THEN "The " \o param \o " of the file or resource"
    ELSE IF param_lower \in {"path", "filepath"}
    THEN "The " \o param \o " to the file or directory"
    ELSE IF param_lower \in {"key", "id", "identifier"}
    THEN "Unique " \o param \o " for identification"
    ELSE IF param_lower \in {"options", "config", "settings"}
    THEN "Configuration " \o param \o " for the operation"
    ELSE IF param_lower \in {"items", "list", "array"}
    THEN "Collection of " \o param \o " to process"
    ELSE IF Contains(param_lower, "count") \/ Contains(param_lower, "num")
            \/ Contains(param_lower, "size")
    THEN "The " \o param \o " specifying quantity"
    ELSE IF Contains(param_lower, "flag") \/ Contains(param_lower, "enable")
            \/ StartsWith(param_lower, "is_")
    THEN "Boolean flag indicating whether to "
         \o str_replace(str_replace(param, "is_", ""), "_", " ")
    ELSE "The " \o param \o " parameter"

\* the return description with the name prefix consulted before the annotation
generate_return_description_name_first(func_name, return_annotation) ==
    IF StartsWith(func_name, "is_") \/ StartsWith(func_name, "has_")
       \/ StartsWith(func_name, "check_")
    THEN "Boolean value indicating the validation result"
    ELSE IF StartsWith(func_name, "get_") \/ StartsWith(func_name, "find_")
    THEN "The requested data or resource"
    ELSE IF StartsWith(func_name, "calculate_") \/ StartsWith(func_name, "compute_")
    THEN "The calculated numerical result"
    ELSE IF return_annotation.some /\ return_annotation.val # ""
    THEN LET a == return_annotation.val IN
         IF Contains(str_lower(a), "bool")
         THEN "Boolean value indicating success or validation result"
         ELSE IF Contains(str_lower(a), "int")
         THEN "Integer value representing the computed result or count"
         ELSE IF Contains(str_lower(a), "str")
         THEN "String containing the processed or formatted output"
         ELSE IF Contains(str_lower(a), "list") \/ Contains(a, "List")
         THEN "List of processed items or results"
         ELSE IF Contains(str_lower(a), "dict") \/ Contains(a, "Dict")
         THEN "Dictionary containing structured result data"
         ELSE a \o " object with the result"
    ELSE "The processed result of the operation"

\* LLMInterface._generate_return_description
generate_return_description(func_name, return_annotation) ==
    IF return_annotation.some /\ return_annotation.val # ""
    THEN LET a == return_annotation.val IN
         IF Contains(str_lower(a), "bool")
         THEN "Boolean value indicating success or validation result"
         ELSE IF Contains(str_lower(a), "int")
         THEN "Integer value representing the computed result or count"
         ELSE IF Contains(str_lower(a), "str")
         THEN "String containing the processed or formatted output"
         ELSE IF Contains(str_lower(a), "list") \/ Contains(a, "List")
         THEN "List of processed items or results"
         ELSE IF Contains(str_lower(a), "dict") \/ Contains(a, "Dict")
         THEN "Dictionary containing structured result data"
         ELSE a \o " object with the result"
    ELSE IF StartsWith(func_name, "is_") \/ StartsWith(func_name, "has_")
            \/ StartsWith(func_name, "check_")
    THEN "Boolean value indicating the validation result"
    ELSE IF StartsWith(func_name, "get_") \/ StartsWith(func_name, "find_")
    THEN "The requested data or resource"
    ELSE IF StartsWith(func_name, "calculate_") \/ StartsWith(func_name, "compute_")
    THEN "The calculated numerical result"
    ELSE "The processed result of the operation"

\* the sample value _generate_examples picks for one parameter
example_value(param) ==
    LET param_lower == str_lower(param) IN
    IF Contains(param_lower, "name") \/ Contains(param_lower, "str")
    THEN "\"" \o param \o "_value\""
    ELSE IF Contains(param_lower, "num") \/ Contains(param_lower, "count")
            \/ Contains(param_lower, "size")
    THEN "10"
    ELSE IF Contains(param_lower, "list") \/ Contains(param_lower, "items")
    THEN "[1, 2, 3]"
    ELSE IF Contains(param_lower, "dict") \/ Contains(param_lower, "data")
    THEN "{\"key\": \"value\"}"
    ELSE IF StartsWith(param_lower, "is_") \/ Contains(param_lower, "flag")
    THEN "True"
    ELSE param \o "_value"

\* LLMInterface._generate_examples
generate_examples(func_name, params) ==
    LET non_self_params == NonSelf(params) IN
    IF non_self_params = <<>> THEN << ">>> " \o func_name \o "()", "result" >>
    ELSE LET example_values ==
                 [j \in 1..Len(non_self_params) |-> example_value(non_self_params[j])]
         IN << ">>> " \o func_name \o "(" \o str_join(", ", example_values) \o ")",
               "expected_result" >>

\* the suggestions with the receiver 'self' left out of the parameter count
generate_inline_comments_without_self(func_info) ==
    (IF Len(NonSelf(func_info.params)) > 1 THEN <<"# Validate input parameters">> ELSE <<>>)
    \o <<"# Perform main operation">>
    \o (IF Contains(str_lower(func_info.body), "return")
           \/ (func_info.return_annotation.some /\ func_info.return_annotation.val # "")
        THEN <<"# Return processed result">> ELSE <<>>)

\* LLMInterface._generate_inline_comments
generate_inline_comments(func_info) ==
    (IF Len(func_info.params) > 1 THEN <<"# Validate input parameters">> ELSE <<>>)
    \o <<"# Perform main operation">>
    \o (IF Contains(str_lower(func_info.body), "return")
           \/ (func_info.return_annotation.some /\ func_info.return_annotation.val # "")
        THEN <<"# Return processed result">> ELSE <<>>)

\* param_descriptions that keep an entry for the receiver 'self'
param_descriptions_with_self(func_info) ==
    [p \in SeqToSet(func_info.params) |-> generate_param_description(p, func_info.name)]

\* the loop of _generate_with_mock that fills param_descriptions
mock_param_descriptions(func_info) ==
    [p \in SeqToSet(func_info.params) \ {"self"} |->
        generate_param_description(p, func_info.name)]

\* LLMInterface._generate_with_mock
generate_with_mock(func_info) ==
    LET name_parts == split_function_name(func_info.name) IN
    [function_name |-> func_info.name,
     description |-> generate_description(func_info.name, name_parts, func_info.params),
     param_descriptions |-> mock_param_descriptions(func_info),
     return_description |->
         generate_return_description(func_info.name, func_info.return_annotation),
     examples |-> generate_examples(func_info.name, func_info.params),
     inline_comments |-> generate_inline_comments(func_info)]

\* response[:200]
DescriptionPrefix == 200
StrPrefix(s, n) == IF Len(s) <= n THEN s ELSE SubSeq(s, 1, n)

\* LLMInterface._parse_api_response
parse_api_response(response, func_info) ==
    [function_name |-> func_info.name,
     description |-> StrPrefix(response, DescriptionPrefix),
     param_descriptions |->
         [p \in SeqToSet(func_info.params) \ {"self"} |-> "Description of " \o p],
     return_description |-> "Return value description",
     examples |-> << ">>> example()", "result" >>,
     inline_comments |-> <<"# Main operation">>]

\* a or b, on optional strings: None and '' are falsy
PyOr(a, b) == IF a.some /\ a.val # "" THEN a ELSE b
Truthy(a) == a.some /\ a.val # ""

\* LLMInterface.__init__; env_key is os.getenv('OPENAI_API_KEY')
llm_init(use_api_arg, api_key_arg, env_key) ==
    LET key == PyOr(api_key_arg, env_key)
    IN [use_api |-> IF use_api_arg /\ ~Truthy(key) THEN FALSE ELSE use_api_arg,
        api_key |-> key]

Raised(exc) == [raised |-> exc]

\* a handler that catches the client library's own errors only
api_fallback_library_errors_only(exc, func_info) ==
    IF exc = "APIError" THEN generate_with_mock(func_info) ELSE Raised(exc)

\* the except clause of _generate_with_api: any Exception falls back to the mock
api_fallback(exc, func_info) == generate_with_mock(func_info)

\* ---------------------------------------------- LLMInterface, as actions
LLMNames == {"calculate_total_price", "getUserName", "is_valid"}
LLMParams ==
    {<<>>, <<"self">>, <<"items", "tax_rate">>, <<"self", "data", "count", "is_flag">>}
LLMAnnotations == {None, Some("List[int]")}
LLMBodies == {"def f(x): pass", "def f(x): return x"}

FuncInfos ==
    {[name |-> n, params |-> ps, return_annotation |-> a, docstring |-> None,
      line_start |-> 1, line_end |-> 1, body |-> b] :
        n \in LLMNames, ps \in LLMParams, a \in LLMAnnotations, b \in LLMBodies}

Keys == {None, Some(""), Some("sk-test")}
EnvKeys == {None, Some("sk-env")}

LongContent ==
    LET fifty == "This function adds two numbers and returns a sum. "
    IN fifty \o fifty \o fifty \o fifty \o fifty
Contents == {"", "Adds two numbers.", LongContent}

\* what the collaborator does with the one request of a call
Behaviours == {"absent", "raises", "malformed", "responds", "stalls"}

ParserIdle ==
    /\ tree = NewParser.tree
    /\ source_lines = NewParser.source_lines

Construct(u, k, e) ==
    /\ pc \in {"idle", "returned"}
    /\ pc' = "idle"
    /\ use_api' = llm_init(u, k, e).use_api
    /\ api_key' = llm_init(u, k, e).api_key
    /\ op' = "__init__"
    /\ arg' = [use_api |-> u, api_key |-> k, env |-> e]
    /\ ret' = NoRet
    /\ collab' = "none"
    /\ attempts' = 0
    /\ UNCHANGED parserVars

\* no call of generate_documentation is under way
Callable == pc \in {"idle", "returned"}

\* generate_documentation(function_info) in local mode
GenerateLocal(f) ==
    /\ Callable
    /\ ~use_api
    /\ op' = "generate_documentation"
    /\ arg' = f
    /\ attempts' = 0
    /\ pc' = "returned"
    /\ collab' = "none"
    /\ ret' = generate_with_mock(f)
    /\ UNCHANGED <<use_api, api_key, parserVars>>

(* generate_documentation(function_info) in API mode: enters the try       *)
(* block of _generate_with_api; b is what the collaborator will do.        *)
GenerateDelegated(f, b) ==
    /\ Callable
    /\ use_api
    /\ op' = "generate_documentation"
    /\ arg' = f
    /\ attempts' = 0
    /\ pc' = "importing"
    /\ collab' = b
    /\ ret' = NoRet
    /\ UNCHANGED <<use_api, api_key, parserVars>>

\* import openai; then the request is sent with openai.ChatCompletion.create
ImportOpenai ==
    /\ pc = "importing"
    /\ IF collab = "absent"
       THEN /\ pc' = "returned"
            /\ ret' = api_fallback("ImportError", arg)
            /\ UNCHANGED attempts
       ELSE /\ pc' = "waiting"
            /\ attempts' = attempts + 1
            /\ UNCHANGED ret
    /\ UNCHANGED <<op, arg, use_api, api_key, collab, parserVars>>

\* the request fails: authentication, network, rate limit
CollaboratorRaises ==
    /\ pc = "waiting"
    /\ collab = "raises"
    /\ pc' = "returned"
    /\ ret' = api_fallback("APIError", arg)
    /\ UNCHANGED <<op, arg, use_api, api_key, collab, attempts, parserVars>>

\* the response has no choices[0].message.content
CollaboratorMalformed ==
    /\ pc = "waiting"
    /\ collab = "malformed"
    /\ pc' = "returned"
    /\ ret' = api_fallback("IndexError", arg)
    /\ UNCHANGED <<op, arg, use_api, api_key, collab, attempts, parserVars>>

CollaboratorResponds(content) ==
    /\ pc = "waiting"
    /\ collab = "responds"
    /\ pc' = "returned"
    /\ ret' = parse_api_response(content, arg)
    /\ UNCHANGED <<op, arg, use_api, api_key, collab, attempts, parserVars>>

InitLLM ==
    /\ ParserIdle
    /\ op = "init"
    /\ arg = <<>>
    /\ ret = NoRet
    /\ use_api = llm_init(FALSE, None, None).use_api
    /\ api_key = llm_init(FALSE, None, None).api_key
    /\ pc = "idle"
    /\ collab = "none"
    /\ attempts = 0

NextLLMOver(funcs) ==
    \/ \E u \in BOOLEAN, k \in Keys, e \in EnvKeys : Construct(u, k, e)
    \/ \E f \in funcs : GenerateLocal(f)
    \/ \E f \in funcs, b \in Behaviours : GenerateDelegated(f, b)
    \/ ImportOpenai
    \/ CollaboratorRaises
    \/ CollaboratorMalformed
    \/ \E content \in Contents : CollaboratorResponds(content)

NextLLM == NextLLMOver(FuncInfos)

SpecLLM == InitLLM /\ [][NextLLM]_vars

(* A call under way keeps running: the import and the request are made,   *)
(* and an answer or an error of the collaborator is handled when it comes. *)
(* A "stalls" collaborator enables none of these steps.  The function      *)
(* record plays no part in the waiting, so one name and one body do.       *)
CollaboratorActs ==
    \/ CollaboratorRaises
    \/ CollaboratorMalformed
    \/ \E content \in Contents : CollaboratorResponds(content)

StallFuncInfos ==
    {f \in FuncInfos : /\ f.name = "is_valid"
                       /\ f.return_annotation = None
                       /\ f.body = "def f(x): pass"}

NextStall == NextLLMOver(StallFuncInfos)

SpecLLMFair ==
    InitLLM /\ [][NextStall]_vars /\ WF_vars(ImportOpenai) /\ WF_vars(CollaboratorActs)

\* ------------------------------------- name decomposition, one call each
NameAlphabet == {"a", "B", "_", "1"}

RECURSIVE StringsOfLen(_)
StringsOfLen(n) ==
    IF n = 0 THEN {""}
    ELSE {s \o c : s \in StringsOfLen(n - 1), c \in NameAlphabet}

GeneratedNames ==
    {s \in UNION {StringsOfLen(n) : n \in 1..MaxNameLen} : ~IsDigit(Head(s))}
SampleNames ==
    {"calculate_total_price", "HTTPServer", "getUserName", "validate", "Get_Data",
     "parseHTML2Text"}
FunctionNames == GeneratedNames \cup SampleNames
NameParams == {<<>>, <<"self", "a", "b">>, <<"a", "b", "c">>, <<"self", "a", "b", "c">>}

InitNames ==
    /\ ParserIdle
    /\ LLMIdle
    /\ op = "pending"
    /\ arg \in [name : FunctionNames, params : NameParams]
    /\ ret = NoRet

SplitFunctionName ==
    /\ op = "pending"
    /\ op' = "_split_function_name"
    /\ ret' = split_function_name(arg.name)
    /\ UNCHANGED <<arg, parserVars, llmVars>>

GenerateDescription ==
    /\ op = "pending"
    /\ op' = "_generate_description"
    /\ ret' = generate_description(arg.name, split_function_name(arg.name), arg.params)
    /\ UNCHANGED <<arg, parserVars, llmVars>>

NextNames == SplitFunctionName \/ GenerateDescription

SpecNames == InitNames /\ [][NextNames]_vars

\* ------------------------- the synthesis helpers of LLMInterface, one call each
ParamNames ==
    {"data", "Input", "value", "name", "filename", "file", "path", "filepath",
     "key", "ID", "identifier", "options", "config", "settings", "items", "list",
     "array", "count", "num_items", "file_size", "flag", "enable_cache", "is_valid",
     "is_count", "flag_count", "num_flags", "tax_rate", "x", "username", "my_dict",
     "str_value"}

SynthNames ==
    {"calculate_total_price", "compute_sum", "is_valid", "has_items", "check_input",
     "get_user", "find_item", "getUserName", "recalculate_total", "run"}

SynthAnnotations ==
    {None, Some("bool"), Some("int"), Some("str"), Some("List[int]"), Some("list"),
     Some("Dict[str, int]"), Some("dict"), Some("Optional[Boolean]"), Some("float"),
     Some("Printer"), Some("DICT")}

SynthBodies == {"def f(x): pass", "def f(x): return x", "def f(x): y = RETURNS"}

\* the parameter lists of the calls: none, the receiver alone, one, two
ParamLists ==
    {<<>>, <<"self">>}
    \cup {<<p>> : p \in ParamNames}
    \cup {<<"self", p>> : p \in ParamNames}
    \cup {pq \in ParamNames \X ParamNames : pq[1] # pq[2]}

CommentParamLists == {<<>>, <<"self">>, <<"x">>, <<"self", "x">>, <<"items", "tax_rate">>}

ParamCalls ==
    [call : {"_generate_param_description"}, param : ParamNames,
     func_name : {"calculate_total_price"}]
ReturnCalls ==
    [call : {"_generate_return_description"}, func_name : SynthNames,
     return_annotation : SynthAnnotations]
ExampleCalls ==
    [call : {"_generate_examples"}, func_name : {"calculate_total_price"},
     params : ParamLists]
CommentCalls ==
    [call : {"_generate_inline_comments"},
     func_info : [name : {"run"}, params : CommentParamLists,
                  return_annotation : {None, Some("int")}, docstring : {None},
                  line_start : {1}, line_end : {1}, body : SynthBodies]]

InitSynth ==
    /\ ParserIdle
    /\ LLMIdle
    /\ op = "pending"
    /\ arg \in ParamCalls \cup ReturnCalls \cup ExampleCalls \cup CommentCalls
    /\ ret = NoRet

SynthReturn(r) ==
    /\ op = "pending"
    /\ op' = arg.call
    /\ ret' = r
    /\ UNCHANGED <<arg, parserVars, llmVars>>

GenerateParamDescription ==
    /\ arg.call = "_generate_param_description"
    /\ SynthReturn(generate_param_description(arg.param, arg.func_name))

GenerateReturnDescription ==
    /\ arg.call = "_generate_return_description"
    /\ SynthReturn(generate_return_description(arg.func_name, arg.return_annotation))

GenerateExamples ==
    /\ arg.call = "_generate_examples"
    /\ SynthReturn(generate_examples(arg.func_name, arg.params))

GenerateInlineComments ==
    /\ arg.call = "_generate_inline_comments"
    /\ SynthReturn(generate_inline_comments(arg.func_info))

NextSynth ==
    \/ GenerateParamDescription
    \/ GenerateReturnDescription
    \/ GenerateExamples
    \/ GenerateInlineComments

SpecSynth == InitSynth /\ [][NextSynth]_vars

\* ------------------------------------------------- DocumentationGenerator
WhitespaceChars == {" ", "\n", "\t", "\r"}

RECURSIVE str_lstrip(_)
str_lstrip(s) ==
    IF s # "" /\ Char(s, 1) \in WhitespaceChars THEN str_lstrip(Tail(s)) ELSE s

RECURSIVE str_rstrip(_)
str_rstrip(s) ==
    IF s # "" /\ Char(s, Len(s)) \in WhitespaceChars
    THEN str_rstrip(SubSeq(s, 1, Len(s) - 1)) ELSE s

\* str.strip()
str_strip(s) == str_rstrip(str_lstrip(s))

RECURSIVE Repeat(_, _)
\* c * n
Repeat(c, n) == IF n = 0 THEN "" ELSE c \o Repeat(c, n - 1)

\* DocumentationGenerator.__init__: self.style
generator_init(style) == str_lower(style)

\* ai_output.param_descriptions.get(param, f'The {param} parameter')
param_desc_of(ai_output, param) ==
    IF param \in DOMAIN ai_output.param_descriptions
    THEN ai_output.param_descriptions[param]
    ELSE "The " \o param \o " parameter"

(* The brief line, a blank line and the detailed description: the opening  *)
(* of _format_google_style, repeated word for word in _format_numpy_style. *)
description_lines(ai_output) ==
    LET parts == str_split(ai_output.description, "\n")
        brief == parts[1]
        detailed_parts == Tail(parts)
        kept == SelectSeq(detailed_parts, LAMBDA part : str_strip(part) # "")
    IN << "\"\"\"" \o brief, "" >>
       \o (IF detailed_parts # <<>>
           THEN [j \in 1..Len(kept) |-> str_strip(kept[j])] \o <<"">>
           ELSE <<>>)

\* the lines of _format_google_style before '\n'.join
google_lines(func_info, ai_output) ==
    LET params == NonSelf(func_info.params) IN
    description_lines(ai_output)
    \o (IF params # <<>>
        THEN <<"Args:">>
             \o [j \in 1..Len(params) |->
                    "    " \o params[j] \o ": " \o param_desc_of(ai_output, params[j])]
             \o <<"">>
        ELSE <<>>)
    \o (IF Truthy(func_info.return_annotation) \/ ai_output.return_description # ""
        THEN <<"Returns:", "    " \o ai_output.return_description, "">>
        ELSE <<>>)
    \o (IF ai_output.examples # <<>>
        THEN <<"Examples:">>
             \o [j \in 1..Len(ai_output.examples) |-> "    " \o ai_output.examples[j]]
             \o <<"">>
        ELSE <<>>)
    \o << "\"\"\"" >>

\* Google style with the returns section tied to the annotation alone
format_google_style_returns_need_annotation(func_info, ai_output) ==
    LET params == NonSelf(func_info.params) IN
    str_join("\n",
        description_lines(ai_output)
        \o (IF params # <<>>
            THEN <<"Args:">>
                 \o [j \in 1..Len(params) |->
                        "    " \o params[j] \o ": " \o param_desc_of(ai_output, params[j])]
                 \o <<"">>
            ELSE <<>>)
        \o (IF Truthy(func_info.return_annotation)
            THEN <<"Returns:", "    " \o ai_output.return_description, "">>
            ELSE <<>>)
        \o (IF ai_output.examples # <<>>
            THEN <<"Examples:">>
                 \o [j \in 1..Len(ai_output.examples) |-> "    " \o ai_output.examples[j]]
                 \o <<"">>
            ELSE <<>>)
        \o << "\"\"\"" >>)

\* DocumentationGenerator._format_google_style
format_google_style(func_info, ai_output) ==
    str_join("\n", google_lines(func_info, ai_output))

\* the lines of _format_numpy_style before '\n'.join
numpy_lines(func_info, ai_output) ==
    LET params == NonSelf(func_info.params) IN
    description_lines(ai_output)
    \o (IF params # <<>>
        THEN <<"Parameters", "----------">>
             \o Flatten([j \in 1..Len(params) |->
                    << params[j] \o " : type",
                       "    " \o param_desc_of(ai_output, params[j]) >>])
             \o <<"">>
        ELSE <<>>)
    \o (IF Truthy(func_info.return_annotation) \/ ai_output.return_description # ""
        THEN <<"Returns", "-------",
               IF Truthy(func_info.return_annotation)
               THEN func_info.return_annotation.val ELSE "type",
               "    " \o ai_output.return_description, "">>
        ELSE <<>>)
    \o (IF ai_output.examples # <<>>
        THEN <<"Examples", "--------">> \o ai_output.examples \o <<"">>
        ELSE <<>>)
    \o << "\"\"\"" >>

\* NumPy style with the returns section tied to the annotation alone
format_numpy_style_returns_need_annotation(func_info, ai_output) ==
    LET params == NonSelf(func_info.params) IN
    str_join("\n",
        description_lines(ai_output)
        \o (IF params # <<>>
            THEN <<"Parameters", "----------">>
                 \o Flatten([j \in 1..Len(params) |->
                        << params[j] \o " : type",
                           "    " \o param_desc_of(ai_output, params[j]) >>])
                 \o <<"">>
            ELSE <<>>)
        \o (IF Truthy(func_info.return_annotation)
            THEN <<"Returns", "-------", func_info.return_annotation.val,
                   "    " \o ai_output.return_description, "">>
            ELSE <<>>)
        \o (IF ai_output.examples # <<>>
            THEN <<"Examples", "--------">> \o ai_output.examples \o <<"">>
            ELSE <<>>)
        \o << "\"\"\"" >>)

\* DocumentationGenerator._format_numpy_style
format_numpy_style(func_info, ai_output) ==
    str_join("\n", numpy_lines(func_info, ai_output))

\* DocumentationGenerator.generate_function_docs; self is the generator's style
generate_function_docs(self, func_info, ai_output) ==
    IF self = "google" THEN format_google_style(func_info, ai_output)
    ELSE IF self = "numpy" THEN format_numpy_style(func_info, ai_output)
    ELSE format_google_style(func_info, ai_output)

(* A dict as the sequence of its <<key, value>> items in insertion order.  *)
(* d[key] = value: a new key is appended, a known key keeps its place.     *)
dict_setitem(d, key, value) ==
    IF \E j \in 1..Len(d) : d[j][1] = key
    THEN [j \in 1..Len(d) |-> IF d[j][1] = key THEN <<key, value>> ELSE d[j]]
    ELSE Append(d, <<key, value>>)

\* the groups joined by the separator, none after the last group
format_output_separator_between(all_docs) ==
    str_join("\n",
        << "# Generated Documentation\n", Repeat("=", 60), "" >>
        \o Flatten([j \in 1..Len(all_docs) |->
               << "## Function: " \o all_docs[j][1], "", all_docs[j][2], "" >>
               \o (IF j < Len(all_docs) THEN << Repeat("-", 60), "" >> ELSE <<>>)]))

\* DocumentationGenerator.format_output
format_output(all_docs) ==
    str_join("\n",
        << "# Generated Documentation\n", Repeat("=", 60), "" >>
        \o Flatten([j \in 1..Len(all_docs) |->
               << "## Function: " \o all_docs[j][1], "", all_docs[j][2], "",
                  Repeat("-", 60), "" >>]))

\* ------------------------------- DocumentationGenerator, one call each
DocFuncInfos ==
    {[name |-> n, params |-> ps, return_annotation |-> a, docstring |-> None,
      line_start |-> 1, line_end |-> 1, body |-> "def f(x): return x"] :
        n \in {"calculate_total_price", "getUserName"},
        ps \in {<<>>, <<"self">>, <<"items", "tax_rate">>,
                <<"self", "data", "count", "is_flag">>},
        a \in {None, Some("List[int]")}}

\* what the text-completion service may answer: one line, several, blank ones
DocContents ==
    {"", "Adds two numbers.", "Adds two numbers.\n  Uses the + operator.  \n\nDone.",
     "Brief only.\n\n"}

(* The payloads given to the formatter for one function: the local one,    *)
(* the delegated ones, and local ones with an empty return description, no *)
(* examples or no parameter descriptions.                                  *)
DocPayloads(f) ==
    LET m == generate_with_mock(f) IN
    {m, [m EXCEPT !.return_description = ""], [m EXCEPT !.examples = <<>>],
     [m EXCEPT !.param_descriptions = <<>>, !.return_description = "",
               !.examples = <<>>]}
    \cup {parse_api_response(c, f) : c \in DocContents}

DocStyles == {"google", "numpy", "Google", "NumPy", "sphinx"}

DocCalls ==
    UNION {[call : {"generate_function_docs"}, style : DocStyles, func_info : {f},
            ai_output : DocPayloads(f)] : f \in DocFuncInfos}

DocKeys == {"calculate_total_price", "getUserName", "run"}

CalcInfo ==
    [name |-> "calculate_total_price", params |-> <<"items", "tax_rate">>,
     return_annotation |-> None, docstring |-> None, line_start |-> 1,
     line_end |-> 1, body |-> "def f(x): return x"]

DocBlocks ==
    {format_google_style(CalcInfo, generate_with_mock(CalcInfo)),
     format_numpy_style(CalcInfo, parse_api_response("Adds two numbers.", CalcInfo)),
     "\"\"\"Runs.\n\n\"\"\""}

RECURSIVE DictOf(_)
\* all_docs = {}, then all_docs[name] = docstring for each assignment in turn
DictOf(assignments) ==
    IF assignments = <<>> THEN <<>>
    ELSE LET n == Len(assignments) IN
         dict_setitem(DictOf(SubSeq(assignments, 1, n - 1)),
                      assignments[n][1], assignments[n][2])

AllDocs == {DictOf(a) : a \in UNION {[1..k -> DocKeys \X DocBlocks] : k \in 0..MaxDocs}}

FormatCalls == [call : {"format_output"}, all_docs : AllDocs]

InitDocs ==
    /\ ParserIdle
    /\ LLMIdle
    /\ op = "pending"
    /\ arg \in DocCalls \cup FormatCalls
    /\ ret = NoRet

\* DocumentationGenerator(style).generate_function_docs(func_info, ai_output)
GenerateFunctionDocs ==
    /\ op = "pending"
    /\ arg.call = "generate_function_docs"
    /\ op' = "generate_function_docs"
    /\ ret' = generate_function_docs(generator_init(arg.style), arg.func_info, arg.ai_output)
    /\ UNCHANGED <<arg, parserVars, llmVars>>

FormatOutput ==
    /\ op = "pending"
    /\ arg.call = "format_output"
    /\ op' = "format_output"
    /\ ret' = format_output(arg.all_docs)
    /\ UNCHANGED <<arg, parserVars, llmVars>>

\* ------------------------------------------------- DocumentationEvaluator
\* self.stop_words
stop_words ==
    {"the", "a", "an", "and", "or", "but", "in", "on", "at", "to", "for",
     "of", "with", "by", "from", "as", "is", "was", "are", "were", "be",
     "been", "being", "have", "has", "had", "do", "does", "did", "will",
     "would", "should", "could", "may", "might", "must", "can", "this",
     "that", "these", "those", "it", "its"}

RECURSIVE sub_special_characters(_)
\* re.sub(r'[^a-z0-9\s]', ' ', text), a half of the text at a time
sub_special_characters(text) ==
    IF text = "" THEN ""
    ELSE IF Len(text) = 1
    THEN (IF IsLower(text) \/ IsDigit(text) \/ text \in WhitespaceChars THEN text ELSE " ")
    ELSE LET mid == Len(text) \div 2
         IN sub_special_characters(SubSeq(text, 1, mid))
            \o sub_special_characters(SubSeq(text, mid + 1, Len(text)))

RECURSIVE str_words(_)
(* text.split(): the maximal runs without white space, a half of the text  *)
(* at a time; a word that runs across the middle is put together again.    *)
str_words(text) ==
    IF text = "" \/ text \in WhitespaceChars THEN <<>>
    ELSE IF Len(text) = 1 THEN <<text>>
    ELSE LET mid == Len(text) \div 2
             left == str_words(SubSeq(text, 1, mid))
             right == str_words(SubSeq(text, mid + 1, Len(text)))
         IN IF Char(text, mid) \notin WhitespaceChars
               /\ Char(text, mid + 1) \notin WhitespaceChars
            THEN SubSeq(left, 1, Len(left) - 1)
                 \o <<left[Len(left)] \o right[1]>> \o Tail(right)
            ELSE left \o right

\* the keywords when the text is not lowercased first
extract_keywords_case_sensitive(text) ==
    LET words == str_words(sub_special_characters(text)) IN
    {w \in SeqToSet(words) : w \notin stop_words /\ Len(w) > 2}

\* DocumentationEvaluator._extract_keywords
extract_keywords(text) ==
    LET words == str_words(sub_special_characters(str_lower(text))) IN
    {w \in SeqToSet(words) : w \notin stop_words /\ Len(w) > 2}

(* round(n / d, 2), in hundredths: the nearest hundredth, a tie going to   *)
(* the even one.  A tie needs a denominator that is a multiple of 8.       *)
round2(n, d) ==
    LET q == (n * 100) \div d
        r == (n * 100) % d
    IN IF 2 * r < d THEN q
       ELSE IF 2 * r > d THEN q + 1
       ELSE IF q % 2 = 0 THEN q ELSE q + 1

\* a float with two decimals, in hundredths
Hundredths(whole) == whole * 100

\* the share of the generated document's keywords that the reference has too
calculate_keyword_overlap_of_generated(ai_docs, human_docs) ==
    LET ai_keywords == extract_keywords(ai_docs)
        human_keywords == extract_keywords(human_docs)
    IN IF ai_keywords = {} \/ human_keywords = {} THEN Hundredths(0)
       ELSE round2(Cardinality(ai_keywords \cap human_keywords) * 100,
                   Cardinality(ai_keywords))

\* DocumentationEvaluator.calculate_keyword_overlap, in hundredths
calculate_keyword_overlap(ai_docs, human_docs) ==
    LET ai_keywords == extract_keywords(ai_docs)
        human_keywords == extract_keywords(human_docs)
    IN IF ai_keywords = {} \/ human_keywords = {} THEN Hundredths(0)
       ELSE round2(Cardinality(ai_keywords \cap human_keywords) * 100,
                   Cardinality(ai_keywords \cup human_keywords))

\* the ratio with 0.0 for a reference without words
calculate_length_ratio_zero_reference(ai_docs, human_docs) ==
    LET ai_words == Len(str_words(ai_docs))
        human_words == Len(str_words(human_docs))
    IN IF human_words = 0 THEN Hundredths(0) ELSE round2(ai_words, human_words)

\* the ratio cut off after two decimals instead of rounded
calculate_length_ratio_truncated(ai_docs, human_docs) ==
    LET ai_words == Len(str_words(ai_docs))
        human_words == Len(str_words(human_docs))
    IN IF human_words = 0 THEN Hundredths(1) ELSE (ai_words * 100) \div human_words

\* DocumentationEvaluator.calculate_length_ratio, in hundredths
calculate_length_ratio(ai_docs, human_docs) ==
    LET ai_words == Len(str_words(ai_docs))
        human_words == Len(str_words(human_docs))
    IN IF human_words = 0 THEN Hundredths(1) ELSE round2(ai_words, human_words)

\* a name counts when it is one of the whitespace-delimited words of the text
is_documented_as_word(name, docs) ==
    str_lower(name) \in SeqToSet(str_words(str_lower(docs)))

\* name.lower() in docs.lower(), the test calculate_coverage makes per element
is_documented(name, docs) == Contains(str_lower(docs), str_lower(name))

\* DocumentationEvaluator.calculate_coverage, in hundredths
calculate_coverage(docs, code_structure) ==
    LET functions == code_structure.functions
        classes == code_structure.classes
        total_elements == Len(functions) + Len(classes)
        documented ==
            Cardinality({j \in 1..Len(functions) : is_documented(functions[j].name, docs)})
            + Cardinality({j \in 1..Len(classes) : is_documented(classes[j].name, docs)})
    IN IF total_elements = 0 THEN Hundredths(100)
       ELSE round2(documented * 100, total_elements)

\* re.search(pattern, docs, re.IGNORECASE) for a pattern of literal alternatives
search_ignorecase(alternatives, docs) ==
    \E a \in alternatives : Contains(str_lower(docs), str_lower(a))

\* the headers found when ^ matches at the start of the document only
section_headers_first_line_only(docs) ==
    LET line == str_split(docs, "\n")[1]
        heads == {h \in {"Args", "Parameters", "Returns", "Examples"} :
                     StartsWith(str_lower(line), str_lower(h) \o ":")}
    IN IF heads = {} THEN <<>>
       ELSE <<SubSeq(line, 1, Len(CHOOSE h \in heads : TRUE))>>

(* re.findall(r'^(Args|Parameters|Returns|Examples):', docs,               *)
(* re.MULTILINE | re.IGNORECASE): the header words, as written, of the     *)
(* lines that begin with one of them and a colon.                          *)
section_headers(docs) ==
    LET lines == str_split(docs, "\n")
        HeaderOf(line) ==
            {h \in {"Args", "Parameters", "Returns", "Examples"} :
                StartsWith(str_lower(line), str_lower(h) \o ":")}
        heads == SelectSeq(lines, LAMBDA line : HeaderOf(line) # {})
    IN [j \in 1..Len(heads) |->
           SubSeq(heads[j], 1, Len(CHOOSE h \in HeaderOf(heads[j]) : TRUE))]

(* re.findall(r'^\s+\w+:.*$', docs, re.MULTILINE): one match per colon     *)
(* that ends a word which follows white space reaching back to the start   *)
(* of a line; the matches are named by the position of that colon.         *)
param_lines(docs) ==
    {c \in 1..Len(docs) :
        /\ Char(docs, c) = ":"
        /\ \E w \in 2..(c - 1) :
              /\ \A i \in w..(c - 1) : IsWordChar(Char(docs, i))
              /\ \E p \in 1..(w - 1) :
                    /\ p = 1 \/ Char(docs, p - 1) = "\n"
                    /\ \A i \in p..(w - 1) : Char(docs, i) \in WhitespaceChars}

\* the five checks when a document without parameter lines fails the fifth
consistency_checks_params_required(docs) ==
    LET sections == section_headers(docs)
        capitalized == Cardinality({j \in 1..Len(sections) : IsUpper(Char(sections[j], 1))})
    IN << search_ignorecase({"Args:", "Parameters:"}, docs),
          search_ignorecase({"Returns:", "Return:"}, docs),
          Contains(docs, "Example") \/ Contains(docs, ">>>"),
          IF sections # <<>>
          THEN capitalized = Len(sections) \/ capitalized = 0
          ELSE FALSE,
          Cardinality(param_lines(docs)) >= 1 >>

\* the list checks of calculate_consistency
consistency_checks(docs) ==
    LET sections == section_headers(docs)
        capitalized == Cardinality({j \in 1..Len(sections) : IsUpper(Char(sections[j], 1))})
    IN << search_ignorecase({"Args:", "Parameters:"}, docs),
          search_ignorecase({"Returns:", "Return:"}, docs),
          Contains(docs, "Example") \/ Contains(docs, ">>>"),
          IF sections # <<>>
          THEN capitalized = Len(sections) \/ capitalized = 0
          ELSE FALSE,
          IF param_lines(docs) # {}
          THEN Cardinality(param_lines(docs)) >= 1
          ELSE TRUE >>

\* DocumentationEvaluator.calculate_consistency, in hundredths
calculate_consistency(docs) ==
    LET checks == consistency_checks(docs)
        passed == Cardinality({j \in 1..Len(checks) : checks[j]})
    IN round2(passed * 100, Len(checks))

Abs(n) == IF n < 0 THEN -n ELSE n

\* the length term when a denominator of exactly zero is divided by
length_term_exact(length_ratio) ==
    LET d == Abs(length_ratio - Hundredths(1) + 10) IN
    IF d = 0 THEN Raised("ZeroDivisionError")
    ELSE IF d <= 10 THEN [num |-> 100, den |-> 1]
    ELSE [num |-> 1000, den |-> d]

(* min(100, (1.0 / abs(length_ratio - 1.0 + 0.1)) * 10), a fraction.  d is *)
(* the denominator in hundredths.  In doubles 0.9 - 1.0 + 0.1 is           *)
(* 2.7755575615628914e-17 and no double x has x - 1.0 + 0.1 = 0, so the    *)
(* division never fails and the quotient at ratio 0.9 is cut to 100.       *)
length_term(length_ratio) ==
    LET d == Abs(length_ratio - Hundredths(1) + 10) IN
    IF d <= 10 THEN [num |-> 100, den |-> 1]
    ELSE [num |-> 1000, den |-> d]

\* the weighted sum when the length term is not cut to 100
overall_score_unclamped(keyword_score, coverage_score, length_ratio, consistency_score) ==
    LET d == Abs(length_ratio - Hundredths(1) + 10)
        t == [num |-> 1000, den |-> IF d = 0 THEN 1 ELSE d]
        scores == 35 * keyword_score + 30 * coverage_score + 20 * consistency_score
    IN [num |-> scores * t.den + 1500 * t.num, den |-> 10000 * t.den]

(* overall_score of evaluate, the fraction num / den: the scores are in    *)
(* hundredths and the weights in hundredths, the length term is a fraction *)
(* t.num / t.den.                                                          *)
overall_score(keyword_score, coverage_score, length_ratio, consistency_score) ==
    LET t == length_term(length_ratio)
        scores == 35 * keyword_score + 30 * coverage_score + 20 * consistency_score
    IN IF "raised" \in DOMAIN t THEN t
       ELSE [num |-> scores * t.den + 1500 * t.num, den |-> 10000 * t.den]

\* DocumentationEvaluator._interpret_keyword_overlap, the tag after its marker
interpret_keyword_overlap(score) ==
    IF score >= Hundredths(80) THEN "Excellent - High semantic similarity"
    ELSE IF score >= Hundredths(60) THEN "Good - Adequate coverage of key concepts"
    ELSE IF score >= Hundredths(40) THEN "Moderate - Some important concepts missing"
    ELSE "Low - Significant semantic differences"

\* DocumentationEvaluator._interpret_coverage
interpret_coverage(score) ==
    IF score = Hundredths(100) THEN "Perfect - All elements documented"
    ELSE IF score >= Hundredths(80) THEN "High - Most elements documented"
    ELSE IF score >= Hundredths(60) THEN "Moderate - Some elements missing documentation"
    ELSE "Low - Many elements undocumented"

\* DocumentationEvaluator._interpret_length_ratio
interpret_length_ratio(ratio) ==
    IF 80 <= ratio /\ ratio <= 120 THEN "Balanced - Similar verbosity to human docs"
    ELSE IF ratio > 120 THEN "Verbose - AI documentation is more detailed"
    ELSE "Concise - AI documentation is briefer"

\* DocumentationEvaluator._interpret_consistency
interpret_consistency(score) ==
    IF score >= Hundredths(90) THEN "Highly Consistent - Uniform style throughout"
    ELSE IF score >= Hundredths(70) THEN "Generally Consistent - Minor variations"
    ELSE IF score >= Hundredths(50) THEN "Moderately Consistent - Some inconsistencies"
    ELSE "Inconsistent - Significant style variations"

(* DocumentationEvaluator.evaluate: the EvaluationResult, or the exception *)
(* that leaves the call.                                                   *)
evaluate(ai_docs, human_docs, code_structure) ==
    LET keyword_score == calculate_keyword_overlap(ai_docs, human_docs)
        coverage_score == calculate_coverage(ai_docs, code_structure)
        length_ratio == calculate_length_ratio(ai_docs, human_docs)
        consistency_score == calculate_consistency(ai_docs)
        overall == overall_score(keyword_score, coverage_score, length_ratio,
                                 consistency_score)
    IN IF "raised" \in DOMAIN overall THEN overall
       ELSE [keyword_overlap_score |-> keyword_score,
             coverage_score |-> coverage_score,
             length_ratio |-> length_ratio,
             consistency_score |-> consistency_score,
             overall_score |-> overall,
             detailed_analysis |->
                 [keyword_overlap |->
                      [score |-> keyword_score,
                       interpretation |-> interpret_keyword_overlap(keyword_score)],
                  coverage |->
                      [score |-> coverage_score,
                       interpretation |-> interpret_coverage(coverage_score)],
                  length_ratio |->
                      [ratio |-> length_ratio,
                       interpretation |-> interpret_length_ratio(length_ratio)],
                  consistency |->
                      [score |-> consistency_score,
                       interpretation |-> interpret_consistency(consistency_score)]]]

\* ------------------- DocumentationGenerator, then DocumentationEvaluator
\* DocumentationEvaluator().calculate_consistency on the block just generated
ScoreGeneratedDocs ==
    /\ op = "generate_function_docs"
    /\ op' = "calculate_consistency"
    /\ arg' = [call |-> "calculate_consistency", docs |-> ret, style |-> arg.style,
               func_info |-> arg.func_info, ai_output |-> arg.ai_output]
    /\ ret' = calculate_consistency(ret)
    /\ UNCHANGED <<parserVars, llmVars>>

NextDocs == GenerateFunctionDocs \/ FormatOutput \/ ScoreGeneratedDocs

SpecDocs == InitDocs /\ [][NextDocs]_vars

\* ------------------------------- DocumentationEvaluator, one call each
DocWords == {"the", "Price", "price,", "total"}

GeneratedDocs ==
    {str_join(" ", ws) : ws \in UNION {[1..k -> DocWords] : k \in 0..MaxDocWords}}

SampleDocs ==
    {"Returns the total price.\n\tArgs: price", "file_name: The ID", "an id",
     "  total\n\nPRICE  ", "Total-price of it", "sum of 42 items"}

\* the texts of the example that goes with calculate_length_ratio
ExampleDocs == {"a b c d", "a b"}

Docs == GeneratedDocs \cup SampleDocs \cup ExampleDocs

(* Documents for calculate_consistency: a line, or none, for each of the   *)
(* parameter header, a parameter, the return header and the examples.      *)
ArgsLines == {"", "Args:", "args:", "    Args:", "Parameters:", "Parameters"}
ParamLines == {"", "    x: value", "x: value"}
ReturnsLines == {"", "Returns:", "returns:", "    Returns:", "Return: y"}
ExampleLines == {"", "Example", "Examples:", "examples:", "    >>> f()"}

ConsistencyDocs ==
    {str_join("\n", SelectSeq(<<a, p, r, e>>, LAMBDA line : line # "")) :
        a \in ArgsLines, p \in ParamLines, r \in ReturnsLines, e \in ExampleLines}

\* the structural models of a few source texts, as get_structure returns them
EvalTexts ==
    {<<DefCalc>>, <<DocLine>>, <<BadLine>>, <<ClassCart, MethodAdd>>,
     <<DefCalc, ClassCart, MethodAdd>>, <<DefCalc, DefLog, DefMove>>}

EvalStructures == {get_structure(NewParser, code).ret : code \in EvalTexts}

\* documents of nine and of ten words, and documents that name elements
EvalDocs ==
    SampleDocs \cup ExampleDocs \cup
    {"", "w w w w w w w w w", "w w w w w w w w w w",
     "calculate_total_price: the price",
     "Args:\n    cart: the Cart\nReturns:\n    log\nExample",
     "Calculate_Total_Price, move and log of a cart\nExample"}

InitEval ==
    /\ ParserIdle
    /\ LLMIdle
    /\ op = "pending"
    /\ arg \in [call : {"calculate_keyword_overlap", "calculate_length_ratio"},
                ai_docs : Docs, human_docs : Docs]
    /\ ret = NoRet

CalculateKeywordOverlap ==
    /\ op = "pending"
    /\ arg.call = "calculate_keyword_overlap"
    /\ op' = "calculate_keyword_overlap"
    /\ ret' = calculate_keyword_overlap(arg.ai_docs, arg.human_docs)
    /\ UNCHANGED <<arg, parserVars, llmVars>>

(* A second call of calculate_keyword_overlap, with the two documents of   *)
(* the first call exchanged; arg keeps what the first call returned.       *)
CalculateKeywordOverlapSwapped ==
    /\ op = "calculate_keyword_overlap"
    /\ "first" \notin DOMAIN arg
    /\ op' = "calculate_keyword_overlap"
    /\ arg' = [call |-> arg.call, ai_docs |-> arg.human_docs,
               human_docs |-> arg.ai_docs, first |-> ret]
    /\ ret' = calculate_keyword_overlap(arg.human_docs, arg.ai_docs)
    /\ UNCHANGED <<parserVars, llmVars>>

CalculateLengthRatio ==
    /\ op = "pending"
    /\ arg.call = "calculate_length_ratio"
    /\ op' = "calculate_length_ratio"
    /\ ret' = calculate_length_ratio(arg.ai_docs, arg.human_docs)
    /\ UNCHANGED <<arg, parserVars, llmVars>>

CalculateCoverage ==
    /\ op = "pending"
    /\ arg.call = "calculate_coverage"
    /\ op' = "calculate_coverage"
    /\ ret' = calculate_coverage(arg.docs, arg.code_structure)
    /\ UNCHANGED <<arg, parserVars, llmVars>>

CalculateConsistency ==
    /\ op = "pending"
    /\ arg.call = "calculate_consistency"
    /\ op' = "calculate_consistency"
    /\ ret' = calculate_consistency(arg.docs)
    /\ UNCHANGED <<arg, parserVars, llmVars>>

Evaluate ==
    /\ op = "pending"
    /\ arg.call = "evaluate"
    /\ op' = "evaluate"
    /\ ret' = evaluate(arg.ai_docs, arg.human_docs, arg.code_structure)
    /\ UNCHANGED <<arg, parserVars, llmVars>>

NextEval ==
    \/ CalculateKeywordOverlap
    \/ CalculateKeywordOverlapSwapped
    \/ CalculateLengthRatio

SpecEval == InitEval /\ [][NextEval]_vars

(* One call of calculate_coverage, calculate_consistency or evaluate on    *)
(* documents and a structural model drawn at the start.                    *)
InitScores ==
    /\ ParserIdle
    /\ LLMIdle
    /\ op = "pending"
    /\ arg \in [call : {"calculate_consistency"}, docs : ConsistencyDocs]
               \cup [call : {"calculate_coverage"}, docs : EvalDocs,
                     code_structure : EvalStructures]
               \cup [call : {"evaluate"}, ai_docs : EvalDocs, human_docs : EvalDocs,
                     code_structure : EvalStructures]
    /\ ret = NoRet

NextScores == CalculateCoverage \/ CalculateConsistency \/ Evaluate

SpecScores == InitScores /\ [][NextScores]_vars

(* calculate_coverage on a document, and again each time the caller has    *)
(* inserted the name of one element of the model somewhere in it.          *)
CoverageTexts ==
    {<<DocLine>>, <<DefLog, DefMove>>, <<ClassCart, MethodAdd>>,
     <<DefLog, ClassCart, MethodAdd>>}

CoverageStructures == {get_structure(NewParser, code).ret : code \in CoverageTexts}

CoverageDocs == {"", "log move", "the Cart"}

\* the names calculate_coverage looks for
ElementNames(code_structure) ==
    {code_structure.functions[j].name : j \in 1..Len(code_structure.functions)}
    \cup {code_structure.classes[j].name : j \in 1..Len(code_structure.classes)}

\* docs[:at] + name + docs[at:]
insert_name(docs, at, name) ==
    SubSeq(docs, 1, at) \o name \o SubSeq(docs, at + 1, Len(docs))

InitCoverage ==
    /\ ParserIdle
    /\ LLMIdle
    /\ op = "pending"
    /\ arg \in [call : {"calculate_coverage"}, docs : CoverageDocs,
                code_structure : CoverageStructures]
    /\ ret = NoRet

(* The caller inserts an element name at a place of the document and calls *)
(* calculate_coverage on the new text; arg keeps the text before, the      *)
(* place and what the call before returned.                                *)
InsertAndCalculateCoverage ==
    /\ op = "calculate_coverage"
    /\ ("inserts" \in DOMAIN arg) => arg.inserts < MaxInserts
    /\ \E name \in ElementNames(arg.code_structure), at \in 0..Len(arg.docs) :
          LET docs == insert_name(arg.docs, at, name) IN
          /\ arg' = [call |-> arg.call, docs |-> docs,
                     code_structure |-> arg.code_structure,
                     into |-> arg.docs, at |-> at, inserted |-> name, before |-> ret,
                     inserts |-> IF "inserts" \in DOMAIN arg THEN arg.inserts + 1 ELSE 1]
          /\ ret' = calculate_coverage(docs, arg.code_structure)
    /\ op' = "calculate_coverage"
    /\ UNCHANGED <<parserVars, llmVars>>

NextCoverage == CalculateCoverage \/ InsertAndCalculateCoverage

SpecCoverage == InitCoverage /\ [][NextCoverage]_vars

\* ------------------------------------------- the pipeline of app.py/main.py
PipelineLines == {DefCalc, ClassCart, MethodAdd, BadLine}
PipelineTexts == TextsOver(PipelineLines, MaxLines)
PipelineStyles == {"google", "numpy"}
HumanDocs == {"", "Calculates the total price of the items in the cart."}

(* The loop over code_structure.functions and format_output: each          *)
(* module-level function is synthesized locally, rendered and assigned to  *)
(* all_docs under its name.                                                *)
generate_all_docs(code_structure, style) ==
    LET functions == code_structure.functions
        doc_gen == generator_init(style)
    IN format_output(DictOf([j \in 1..Len(functions) |->
           << functions[j].name,
              generate_function_docs(doc_gen, functions[j],
                                     generate_with_mock(functions[j])) >>]))

InitPipeline ==
    /\ ParserIdle
    /\ LLMIdle
    /\ op = "pending"
    /\ arg \in [call : {"generate"}, code : PipelineTexts, style : PipelineStyles,
                human_docs : HumanDocs]
    /\ ret = NoRet

(* The handler that generates: get_structure on a new CodeParser, an error *)
(* for an invalid text, else the model and the generated document are kept *)
(* for the evaluation.                                                     *)
GenerateDocumentation ==
    /\ op = "pending"
    /\ arg.call = "generate"
    /\ op' = "generate"
    /\ LET code_structure == get_structure(NewParser, arg.code).ret IN
       ret' = IF ~code_structure.is_valid
              THEN [error |-> code_structure.error_message]
              ELSE [code_structure |-> code_structure,
                    ai_docs |-> generate_all_docs(code_structure, arg.style)]
    /\ UNCHANGED <<arg, parserVars, llmVars>>

(* The handler that evaluates: an error unless a generated and a human     *)
(* document are there, else evaluate on them and the model kept.           *)
EvaluateDocumentation ==
    /\ op = "generate"
    /\ "ai_docs" \in DOMAIN ret
    /\ op' = "evaluate"
    /\ arg' = [call |-> "evaluate", ai_docs |-> ret.ai_docs,
               human_docs |-> arg.human_docs, code_structure |-> ret.code_structure]
    /\ ret' = IF ret.ai_docs = "" \/ arg.human_docs = ""
              THEN [error |-> Some("Please generate AI docs and load human docs first!")]
              ELSE evaluate(ret.ai_docs, arg.human_docs, ret.code_structure)
    /\ UNCHANGED <<parserVars, llmVars>>

NextPipeline == GenerateDocumentation \/ EvaluateDocumentation

SpecPipeline == InitPipeline /\ [][NextPipeline]_vars

\* ------------------------------------------------- claims on CodeParser
(* C1: every CodeStructure that get_structure returns, after any earlier   *)
(* calls on the same CodeParser, has no functions, no classes, no module   *)
(* docstring and an error message when is_valid is false, and no error     *)
(* message when is_valid is true.                                          *)
C1_StructureInvariant ==
    op = "get_structure" =>
        /\ ~ret.is_valid =>
              /\ ret.functions = <<>>
              /\ ret.classes = <<>>
              /\ ret.module_docstring = None
              /\ ret.error_message # None
        /\ ret.is_valid => ret.error_message = None

\* get_structure rejected a text on a parser that still holds an earlier tree
C1_Witness ==
    /\ op = "get_structure"
    /\ ~ret.is_valid
    /\ tree # None
    /\ FunctionsOf(tree.val, arg) # <<>>

(* C2: for every text that fails to parse, validate_syntax and             *)
(* get_structure return an error message that is non-empty and contains    *)
(* the number of a line of the text, whichever failure occurred.           *)
ErrorOf(o, r) == IF o = "get_structure" THEN r.error_message ELSE r.error_msg

HasLineNumber(msg, code) == \E n \in 1..Len(code) : Contains(msg, ToString(n))

C2_ErrorNamesLine ==
    (op \in {"get_structure", "validate_syntax"} /\ ~ret.is_valid) =>
        /\ ErrorOf(op, ret) # None
        /\ ErrorOf(op, ret).val # ""
        /\ HasLineNumber(ErrorOf(op, ret).val, arg)

(* C3: for valid source the functions list holds exactly the functions     *)
(* declared directly at module scope, in source order; a function declared *)
(* directly inside a class is in that class's methods and not in the       *)
(* module-level list; none is recorded both ways.                          *)
\* the numbers of the lines that declare a function at the given indent
DeclaredAt(code, d) ==
    SelectSeq([i \in 1..Len(code) |-> i],
              LAMBDA i : code[i].kind = "def" /\ code[i].indent = d)

StartLines(fs) == [j \in 1..Len(fs) |-> fs[j].line_start]
Names(fs) == [j \in 1..Len(fs) |-> fs[j].name]

MethodLines(cs) == Flatten([j \in 1..Len(cs) |-> StartLines(cs[j].methods)])

C3_ModuleFunctionsAndMethods ==
    (op = "get_structure" /\ ret.is_valid) =>
        /\ StartLines(ret.functions) = DeclaredAt(arg, 0)
        /\ Names(ret.functions) =
               [j \in 1..Len(DeclaredAt(arg, 0)) |-> arg[DeclaredAt(arg, 0)[j]].name]
        /\ MethodLines(ret.classes) = DeclaredAt(arg, 1)
        /\ SeqToSet(StartLines(ret.functions)) \cap SeqToSet(MethodLines(ret.classes)) = {}

(* C4: the params of every extracted FunctionInfo are all the parameters   *)
(* the function declares, in declaration order, 'self' included.           *)
DeclaredParams(code, i) == [j \in 1..Len(code[i].decl) |-> code[i].decl[j].name]

AllFunctionInfos(st) ==
    st.functions \o Flatten([j \in 1..Len(st.classes) |-> st.classes[j].methods])

C4_ParamsTranscribed ==
    (op = "get_structure" /\ ret.is_valid) =>
        \A j \in 1..Len(AllFunctionInfos(ret)) :
            LET f == AllFunctionInfos(ret)[j]
            IN f.params = DeclaredParams(arg, f.line_start)

(* C5: get_structure is history-independent: on any CodeParser, whatever   *)
(* was called on it before, it returns what a fresh CodeParser returns for *)
(* the same text, so two calls with identical text return equal models.    *)
C5_HistoryIndependent ==
    op = "get_structure" => ret = get_structure(NewParser, arg).ret

\* get_structure was called with a text other than the one whose tree, with a
\* class in it, the parser holds from an earlier call
C5_Witness ==
    /\ op = "get_structure"
    /\ tree # None
    /\ source_lines # arg
    /\ ClassesOf(tree.val, source_lines) # <<>>

\* ----------------------------------------------- claims on LLMInterface
(* C6: in API mode generate_documentation never raises; when the           *)
(* collaborator is absent, fails or answers without content, or when API   *)
(* mode was requested without a key, the call returns exactly the payload  *)
(* of local-mode synthesis for the same function record; the collaborator  *)
(* is called at most once per call.                                        *)
C6_FallbackToLocal ==
    /\ use_api => Truthy(api_key)
    /\ attempts <= 1
    /\ pc = "returned" =>
          /\ "raised" \notin DOMAIN ret
          /\ collab # "responds" => ret = generate_with_mock(arg)

\* an API-mode call whose one request failed has returned
C6_Witness ==
    /\ pc = "returned"
    /\ use_api
    /\ collab = "raises"
    /\ attempts = 1
    /\ ret.function_name = arg.name

(* C7: in API mode a collaborator that stalls and never responds does not  *)
(* hang the caller: generate_documentation eventually returns.             *)
C7_StallReturns == (pc = "waiting" /\ collab = "stalls") ~> (pc = "returned")

(* C8: name decomposition returns only lowercase tokens for every function *)
(* name, underscore-delimited or capital-letter-delimited; HTTPServer      *)
(* gives [http, server].                                                   *)
C8_TokensLowercase ==
    op = "_split_function_name" =>
        /\ \A j \in 1..Len(ret) : ret[j] = str_lower(ret[j])
        /\ arg.name = "HTTPServer" => ret = <<"http", "server">>

(* C9: the brief description starts with the verb-table phrase of the      *)
(* first name token (the capitalized token plus 's' when the table lacks   *)
(* it), then the remaining tokens joined by spaces, or 'the input data'    *)
(* when there are none; 'with multiple parameters' follows exactly when    *)
(* more than 2 parameters other than 'self' exist; calculate_total_price   *)
(* gets 'Calculates'.                                                      *)
VerbPhrase(token) ==
    LET hits == {j \in 1..Len(action_templates) : action_templates[j][1] = token}
    IN IF hits = {} THEN str_capitalize(token) \o "s"
       ELSE action_templates[CHOOSE j \in hits : TRUE][2]

C9_BriefDescription ==
    op = "_generate_description" =>
        LET parts == split_function_name(arg.name)
            first == IF parts = <<>> THEN "process" ELSE parts[1]
            obj == IF Len(parts) > 1 THEN str_join(" ", Tail(parts)) ELSE "the input data"
            head == VerbPhrase(first) \o " " \o obj
            n == Cardinality({j \in 1..Len(arg.params) : arg.params[j] # "self"})
        IN /\ StartsWith(ret, head)
           /\ StartsWith(ret, head \o " with multiple parameters.") <=> n > 2
           /\ StartsWith(ret, head \o ".") <=> n <= 2
           /\ n > 2 => Contains(ret, "with multiple parameters")
           /\ arg.name = "calculate_total_price" => StartsWith(ret, "Calculates total price")

\* the description of calculate_total_price(self, a, b, c) has the qualifier
C9_Witness ==
    /\ op = "_generate_description"
    /\ arg.name = "calculate_total_price"
    /\ arg.params = <<"self", "a", "b", "c">>
    /\ StartsWith(ret, "Calculates total price with multiple parameters.")

(* C10: in both synthesis modes the keys of param_descriptions are         *)
(* parameters of the function, never 'self', and every parameter other     *)
(* than 'self' has an entry.                                               *)
C10_ParamDescriptionKeys ==
    pc = "returned" =>
        /\ DOMAIN ret.param_descriptions \subseteq SeqToSet(arg.params)
        /\ "self" \notin DOMAIN ret.param_descriptions
        /\ \A j \in 1..Len(arg.params) :
               arg.params[j] # "self" => arg.params[j] \in DOMAIN ret.param_descriptions

\* a method with a receiver and three more parameters, documented by the collaborator
C10_Witness ==
    /\ pc = "returned"
    /\ collab = "responds"
    /\ arg.params = <<"self", "data", "count", "is_flag">>
    /\ DOMAIN ret.param_descriptions = {"data", "count", "is_flag"}

\* ------------------------------------- claims on the synthesis helpers
\* whether the name satisfies bucket k of the parameter buckets, 1..8
BucketMatches(k, param) ==
    LET n == str_lower(param) IN
    CASE k = 1 -> n \in {"data", "input", "value"}
      [] k = 2 -> n \in {"name", "filename", "file"}
      [] k = 3 -> n \in {"path", "filepath"}
      [] k = 4 -> n \in {"key", "id", "identifier"}
      [] k = 5 -> n \in {"options", "config", "settings"}
      [] k = 6 -> n \in {"items", "list", "array"}
      [] k = 7 -> Contains(n, "count") \/ Contains(n, "num") \/ Contains(n, "size")
      [] k = 8 -> Contains(n, "flag") \/ Contains(n, "enable") \/ StartsWith(n, "is_")

\* the earliest bucket the name satisfies, the generic one if none
FirstBucket(param) ==
    LET ks == {k \in 1..8 : BucketMatches(k, param)} IN
    IF ks = {} THEN 9 ELSE CHOOSE k \in ks : \A m \in ks : k <= m

\* whether the sentence is the one of bucket k for the parameter
IsSentenceOf(k, param, sentence) ==
    CASE k = 1 -> sentence = "The input " \o param \o " to be processed"
      [] k = 2 -> sentence = "The " \o param \o " of the file or resource"
      [] k = 3 -> sentence = "The " \o param \o " to the file or directory"
      [] k = 4 -> sentence = "Unique " \o param \o " for identification"
      [] k = 5 -> sentence = "Configuration " \o param \o " for the operation"
      [] k = 6 -> sentence = "Collection of " \o param \o " to process"
      [] k = 7 -> sentence = "The " \o param \o " specifying quantity"
      [] k = 8 -> StartsWith(sentence, "Boolean flag indicating whether to ")
      [] k = 9 -> sentence = "The " \o param \o " parameter"

(* C11: the description of a parameter is the sentence of the earliest     *)
(* bucket, in the order data/input/value, name/filename/file,              *)
(* path/filepath, key/id/identifier, options/config/settings,              *)
(* items/list/array, contains count/num/size, contains flag/enable or      *)
(* starts with is_, that its name satisfies, and 'The <param> parameter'   *)
(* when it satisfies none.                                                 *)
C11_BucketPriority ==
    op = "_generate_param_description" =>
        IsSentenceOf(FirstBucket(arg.param), arg.param, ret)

\* a name in both the quantity and the flag bucket gets the quantity sentence
C11_Witness ==
    /\ op = "_generate_param_description"
    /\ BucketMatches(7, arg.param)
    /\ BucketMatches(8, arg.param)
    /\ ret = "The " \o arg.param \o " specifying quantity"

\* the type words of the return annotation, in priority order, and their sentences
ReturnTypeSentences ==
    << <<"bool", "Boolean value indicating success or validation result">>,
       <<"int", "Integer value representing the computed result or count">>,
       <<"str", "String containing the processed or formatted output">>,
       <<"list", "List of processed items or results">>,
       <<"dict", "Dictionary containing structured result data">> >>

\* the sentence for an annotation: the first type word it contains, any case
AnnotationSentence(annotation) ==
    LET hits == {k \in 1..Len(ReturnTypeSentences) :
                    Contains(str_lower(annotation), ReturnTypeSentences[k][1])}
    IN IF hits = {} THEN annotation \o " object with the result"
       ELSE ReturnTypeSentences[CHOOSE k \in hits : \A m \in hits : k <= m][2]

\* the sentence for a function name without annotation, by its prefix
PrefixSentence(func_name) ==
    IF \E q \in {"is_", "has_", "check_"} : StartsWith(func_name, q)
    THEN "Boolean value indicating the validation result"
    ELSE IF \E q \in {"get_", "find_"} : StartsWith(func_name, q)
    THEN "The requested data or resource"
    ELSE IF \E q \in {"calculate_", "compute_"} : StartsWith(func_name, q)
    THEN "The calculated numerical result"
    ELSE "The processed result of the operation"

(* C12: with a return annotation the return description is the sentence of *)
(* the first of bool, int, str, list, dict the annotation contains, in any *)
(* case, else '<annotation> object with the result', whatever the function *)
(* name; without an annotation it is the sentence of the name's prefix     *)
(* (is_/has_/check_, get_/find_, calculate_/compute_, else generic).       *)
C12_ReturnDescription ==
    op = "_generate_return_description" =>
        IF arg.return_annotation.some
        THEN ret = AnnotationSentence(arg.return_annotation.val)
        ELSE ret = PrefixSentence(arg.func_name)

\* an annotated function whose name has a prefix of the table is described by the annotation
C12_Witness ==
    /\ op = "_generate_return_description"
    /\ arg.func_name = "is_valid"
    /\ arg.return_annotation = Some("Dict[str, int]")
    /\ ret = "Integer value representing the computed result or count"

\* the kinds of placeholder value of an example call
PlaceholderKinds == {"string", "number", "list", "dict", "boolean", "generic"}

Placeholder(kind, param) ==
    CASE kind = "string" -> "\"" \o param \o "_value\""
      [] kind = "number" -> "10"
      [] kind = "list" -> "[1, 2, 3]"
      [] kind = "dict" -> "{\"key\": \"value\"}"
      [] kind = "boolean" -> "True"
      [] kind = "generic" -> param \o "_value"

CallLine(func_name, values) == ">>> " \o func_name \o "(" \o str_join(", ", values) \o ")"

(* C13: the kind of placeholder an example call gives a parameter          *)
(* corresponds to the bucket the parameter falls into in parameter         *)
(* description generation: the call line is made of one placeholder per    *)
(* non-receiver parameter, and two parameters of the same bucket get       *)
(* placeholders of the same kind.                                          *)
C13_SameClassification ==
    (op = "_generate_examples" /\ NonSelf(arg.params) # <<>>) =>
        LET ps == NonSelf(arg.params) IN
        \E ks \in [1..Len(ps) -> PlaceholderKinds] :
            /\ ret[1] = CallLine(arg.func_name,
                                 [j \in 1..Len(ps) |-> Placeholder(ks[j], ps[j])])
            /\ \A i, j \in 1..Len(ps) :
                   FirstBucket(ps[i]) = FirstBucket(ps[j]) => ks[i] = ks[j]

(* C14: the examples of local mode are exactly one example call line       *)
(* followed by the line 'expected_result'; without non-receiver parameters *)
(* the call has no arguments and the second line is still                  *)
(* 'expected_result'.                                                      *)
C14_ExpectedResultLine ==
    op = "_generate_examples" =>
        /\ Len(ret) = 2
        /\ StartsWith(ret[1], ">>> " \o arg.func_name \o "(")
        /\ NonSelf(arg.params) = <<>> => ret[1] = ">>> " \o arg.func_name \o "()"
        /\ ret[2] = "expected_result"

\* the three suggestions, in the order of emission
CommentSuggestions ==
    <<"# Validate input parameters", "# Perform main operation", "# Return processed result">>

Emitted(comments, c) == \E i \in 1..Len(comments) : comments[i] = c

(* C15: 'validate input parameters' is suggested exactly when the function *)
(* has more than one parameter, 'perform main operation' always, 'return   *)
(* processed result' exactly when the body text contains 'return' in any   *)
(* case or a return annotation is present; the suggestions keep this order *)
(* and none is repeated.                                                   *)
C15_CommentSuggestions ==
    op = "_generate_inline_comments" =>
        LET f == arg.func_info IN
        /\ Emitted(ret, CommentSuggestions[1]) <=> Len(f.params) > 1
        /\ Emitted(ret, CommentSuggestions[2])
        /\ Emitted(ret, CommentSuggestions[3]) <=>
               (Contains(str_lower(f.body), "return") \/ f.return_annotation.some)
        /\ ret = SelectSeq(CommentSuggestions, LAMBDA c : Emitted(ret, c))

\* a method with one parameter besides the receiver, upper-case 'RETURNS' in the body
C15_Witness ==
    /\ op = "_generate_inline_comments"
    /\ arg.func_info.params = <<"self", "x">>
    /\ arg.func_info.return_annotation = None
    /\ arg.func_info.body = "def f(x): y = RETURNS"
    /\ ret = CommentSuggestions

\* ------------------------------------ claims on DocumentationGenerator
RECURSIVE BlocksOf(_, _)
\* the runs of lines between blank lines, cur being the run under way
BlocksOf(lines, cur) ==
    IF lines = <<>> THEN (IF cur = <<>> THEN <<>> ELSE <<cur>>)
    ELSE IF Head(lines) = ""
    THEN (IF cur = <<>> THEN <<>> ELSE <<cur>>) \o BlocksOf(Tail(lines), <<>>)
    ELSE BlocksOf(Tail(lines), Append(cur, Head(lines)))

Blocks(text) == BlocksOf(str_split(text, "\n"), <<>>)

\* the layout a style name selects: anything but numpy renders as Google
LayoutOf(style) == IF str_lower(style) = "numpy" THEN "numpy" ELSE "google"

\* the section a block of the rendering is, by the header tokens of the layout
SectionOf(block, layout) ==
    IF layout = "google"
    THEN CASE block[1] = "Args:" -> "parameters"
           [] block[1] = "Returns:" -> "returns"
           [] block[1] = "Examples:" -> "examples"
           [] OTHER -> "none"
    ELSE IF Len(block) < 2 \/ block[2] # Repeat("-", Len(block[1])) THEN "none"
    ELSE CASE block[1] = "Parameters" -> "parameters"
           [] block[1] = "Returns" -> "returns"
           [] block[1] = "Examples" -> "examples"
           [] OTHER -> "none"

Unindent(line) == IF StartsWith(line, "    ") THEN SubSeq(line, 5, Len(line)) ELSE "?"

ParamName(line) ==
    LET n == Len(line) - Len(" : type") IN
    IF n >= 0 /\ SubSeq(line, n + 1, Len(line)) = " : type" THEN SubSeq(line, 1, n) ELSE "?"

(* What a section block says once the layout is taken away: 'name: text'   *)
(* per parameter, the return text, the example lines.                      *)
ContentOf(block, layout) ==
    LET section == SectionOf(block, layout) IN
    IF layout = "google"
    THEN [j \in 1..(Len(block) - 1) |-> Unindent(block[j + 1])]
    ELSE LET body == SubSeq(block, 3, Len(block)) IN
         CASE section = "parameters" ->
                  [k \in 1..(Len(body) \div 2) |->
                      ParamName(body[2 * k - 1]) \o ": " \o Unindent(body[2 * k])]
           [] section = "returns" -> IF Len(body) = 2 THEN <<Unindent(body[2])>> ELSE <<"?">>
           [] section = "examples" -> body

\* the sections the inputs call for, in order
ExpectedSections(func_info, ai_output) ==
    (IF NonSelf(func_info.params) # <<>> THEN <<"parameters">> ELSE <<>>)
    \o (IF func_info.return_annotation.some \/ ai_output.return_description # ""
        THEN <<"returns">> ELSE <<>>)
    \o (IF ai_output.examples # <<>> THEN <<"examples">> ELSE <<>>)

\* the descriptive content of the inputs for one section
ExpectedContent(section, func_info, ai_output) ==
    LET ps == NonSelf(func_info.params) IN
    CASE section = "parameters" ->
             [j \in 1..Len(ps) |-> ps[j] \o ": " \o
                 (IF ps[j] \in DOMAIN ai_output.param_descriptions
                  THEN ai_output.param_descriptions[ps[j]]
                  ELSE "The " \o ps[j] \o " parameter")]
      [] section = "returns" -> <<ai_output.return_description>>
      [] section = "examples" -> ai_output.examples

\* the brief line and the non-blank lines of the elaboration, stripped
ExpectedDescription(ai_output) ==
    LET parts == str_split(ai_output.description, "\n")
        rest == SelectSeq(Tail(parts), LAMBDA x : str_strip(x) # "")
    IN << "\"\"\"" \o parts[1] >> \o [j \in 1..Len(rest) |-> str_strip(rest[j])]

HeadingPrefix == "## Function: "

IsHeading(line) == StartsWith(line, HeadingPrefix)

\* the positions of the level-2 headings among the lines, ascending
HeadingPositions(lines) ==
    LET all == [i \in 1..Len(lines) |-> i] IN SelectSeq(all, LAMBDA i : IsHeading(lines[i]))

(* C17: the output of format_output starts with the title line; its        *)
(* level-2 headings name the keys of the mapping, in insertion order, one  *)
(* heading per entry and none for any other name; each heading is followed *)
(* by that entry's rendered block and then by a horizontal separator,      *)
(* which closes the group.                                                 *)
C17_OneGroupPerEntry ==
    op = "format_output" =>
        LET lines == str_split(ret, "\n")
            at == HeadingPositions(lines)
            docs == arg.all_docs
            groupEnd(j) == IF j < Len(at) THEN at[j + 1] - 1 ELSE Len(lines)
        IN /\ lines[1] = "# Generated Documentation"
           /\ Len(at) = Len(docs)
           /\ \A j \in 1..Len(at) :
                  /\ lines[at[j]] = HeadingPrefix \o docs[j][1]
                  /\ SubSeq(lines, at[j] + 1, groupEnd(j))
                         = <<"">> \o str_split(docs[j][2], "\n")
                            \o <<"", Repeat("-", 60), "">>
           /\ \A i \in 2..(IF at = <<>> THEN Len(lines) ELSE at[1] - 1) :
                  lines[i] \in {"", Repeat("=", 60)}

\* two entries, the first of them assigned twice: it keeps its place
C17_Witness ==
    /\ op = "format_output"
    /\ Len(arg.all_docs) = 2
    /\ arg.all_docs[1][1] = "run"
    /\ arg.all_docs[2][1] = "calculate_total_price"
    /\ Len(HeadingPositions(str_split(ret, "\n"))) = 2

\* local synthesis of calculate_total_price(items, tax_rate), rendered in Google style
IsCalcGoogle ==
    /\ op = "generate_function_docs"
    /\ LayoutOf(arg.style) = "google"
    /\ arg.func_info.name = "calculate_total_price"
    /\ arg.func_info.params = <<"items", "tax_rate">>
    /\ arg.func_info.return_annotation = None
    /\ arg.ai_output = generate_with_mock(arg.func_info)

\* what each line of a Google-style block is; indented lines belong to the block above
LineKind(lines, i) ==
    IF i = 1 THEN "brief"
    ELSE IF lines[i] = "" THEN "blank"
    ELSE IF lines[i] = "\"\"\"" THEN "closing"
    ELSE IF lines[i] \in {"Args:", "Returns:", "Examples:"} THEN lines[i]
    ELSE IF StartsWith(lines[i], "    ") THEN "indented"
    ELSE "text"

\* the sequence of parts of a block: the kinds of its lines, indented lines left out
Shape(text) ==
    LET lines == str_split(text, "\n")
        kinds == [i \in 1..Len(lines) |-> LineKind(lines, i)]
    IN SelectSeq(kinds, LAMBDA k : k # "indented")

\* the indented lines under the header, up to the next blank line
RECURSIVE IndentedFrom(_, _)
IndentedFrom(lines, i) ==
    IF i <= Len(lines) /\ StartsWith(lines[i], "    ")
    THEN <<lines[i]>> \o IndentedFrom(lines, i + 1) ELSE <<>>

BlockUnder(text, header) ==
    LET lines == str_split(text, "\n") IN
    IF \E i \in 1..Len(lines) : lines[i] = header
    THEN IndentedFrom(lines, 1 + CHOOSE i \in 1..Len(lines) : lines[i] = header)
    ELSE <<>>

(* C18 as stated: for calculate_total_price(items, tax_rate) without       *)
(* annotation, local synthesis and Google-style rendering emit exactly:    *)
(* brief line, blank line, Args: block listing both parameters, blank      *)
(* line, Returns: block, blank line, Examples: block, closing marker (the  *)
(* blank line that ends the Examples: block counted with the block).       *)
C18_ExactSequence ==
    IsCalcGoogle =>
        /\ Shape(ret) \in {<<"brief", "blank", "Args:", "blank", "Returns:", "blank",
                             "Examples:", "closing">>,
                           <<"brief", "blank", "Args:", "blank", "Returns:", "blank",
                             "Examples:", "blank", "closing">>}
        /\ Len(BlockUnder(ret, "Args:")) = 2

(* C18 as amended: the sequence is brief line, blank line, the elaboration *)
(* paragraph, blank line, Args: block listing items and tax_rate, blank    *)
(* line, Returns: block, blank line, Examples: block, blank line, closing  *)
(* marker.                                                                 *)
C18_SequenceWithElaboration ==
    IsCalcGoogle =>
        /\ Shape(ret) = <<"brief", "blank", "text", "blank", "Args:", "blank",
                          "Returns:", "blank", "Examples:", "blank", "closing">>
        /\ StartsWith(ret, "\"\"\"Calculates total price.\n")
        /\ BlockUnder(ret, "Args:") = <<"    items: Collection of items to process",
                                        "    tax_rate: The tax_rate parameter">>
        /\ BlockUnder(ret, "Returns:") = <<"    The calculated numerical result">>
        /\ Len(BlockUnder(ret, "Examples:")) = 2

C18_Witness ==
    /\ IsCalcGoogle
    /\ arg.style = "google"
    /\ Contains(ret, "\n\nThis function performs calculate operations on total price.")

\* ------------------------------------ claims on DocumentationEvaluator
(* The keyword set of a text: its maximal runs of letters and digits,      *)
(* lowercased, without the stop words and the runs of length 2 or less.    *)
Vocabulary(text) ==
    LET t == str_lower(text)
        n == Len(t)
        alnum(i) == IsLower(Char(t, i)) \/ IsDigit(Char(t, i))
        starts == {i \in 1..n : alnum(i) /\ (i = 1 \/ ~alnum(i - 1))}
        ends == {j \in 1..n : alnum(j) /\ (j = n \/ ~alnum(j + 1))}
        runs == {r \in starts \X ends :
                    r[1] <= r[2] /\ \A k \in r[1]..r[2] : alnum(k)}
    IN {w \in {SubSeq(t, r[1], r[2]) : r \in runs} : Len(w) > 2 /\ w \notin stop_words}

SelfEvaluation == op # "pending" /\ arg.ai_docs = arg.human_docs

(* C19 as stated: a document evaluated against itself has keyword overlap  *)
(* 100.0 and length ratio 1.0, whatever the document.                      *)
C19_SelfEvaluation ==
    SelfEvaluation =>
        /\ op = "calculate_keyword_overlap" => ret = Hundredths(100)
        /\ op = "calculate_length_ratio" => ret = Hundredths(1)

(* C19 as amended: a document evaluated against itself has length ratio    *)
(* 1.0, and keyword overlap 100.0 when it has at least one keyword, 0.0    *)
(* when it has none.                                                       *)
C19_SelfEvaluationOfKeywords ==
    SelfEvaluation =>
        /\ op = "calculate_keyword_overlap" =>
               ret = IF Vocabulary(arg.ai_docs) # {} THEN Hundredths(100) ELSE Hundredths(0)
        /\ op = "calculate_length_ratio" => ret = Hundredths(1)

\* the empty document against itself: the ratio of zero words to zero words is 1.0
C19_Witness ==
    /\ SelfEvaluation
    /\ op = "calculate_length_ratio"
    /\ str_words(arg.human_docs) = <<>>
    /\ ret = Hundredths(1)

(* C20 as stated: keyword overlap is 100 whenever the two texts have the   *)
(* same keyword set, and 0 whenever the keyword sets are disjoint or one   *)
(* of them is empty.                                                       *)
C20_IdenticalOrDisjoint ==
    op = "calculate_keyword_overlap" =>
        LET a == Vocabulary(arg.ai_docs)
            h == Vocabulary(arg.human_docs)
        IN /\ a = h => ret = Hundredths(100)
           /\ (a \cap h = {} \/ a = {} \/ h = {}) => ret = Hundredths(0)

(* C20 as amended: keyword overlap is 100 whenever the two texts have the  *)
(* same keyword set and it is not empty, and 0 whenever the keyword sets   *)
(* are disjoint or one of them is empty.                                   *)
C20_IdenticalNonEmptyOrDisjoint ==
    op = "calculate_keyword_overlap" =>
        LET a == Vocabulary(arg.ai_docs)
            h == Vocabulary(arg.human_docs)
        IN /\ (a = h /\ a # {}) => ret = Hundredths(100)
           /\ (a \cap h = {} \/ a = {} \/ h = {}) => ret = Hundredths(0)

\* two different texts with the same keywords, apart from case and punctuation
C20_Witness ==
    /\ op = "calculate_keyword_overlap"
    /\ arg.ai_docs = "Total-price of it"
    /\ arg.human_docs = "  total\n\nPRICE  "
    /\ Vocabulary(arg.ai_docs) = {"total", "price"}
    /\ ret = Hundredths(100)

\* ------------------------------------------- claims on the overall score
\* the three weighted scores of a result, 35 k + 30 c + 20 s
WeightedScores(result) ==
    35 * result.keyword_overlap_score + 30 * result.coverage_score
    + 20 * result.consistency_score

(* C21: the overall score of evaluate lies in [0, 100] for all inputs:     *)
(* keyword overlap, coverage and consistency are each in [0, 100], the     *)
(* length ratio is not negative, the length term of the weighted sum never *)
(* exceeds 100, and the sum is neither below 0 nor above 100.              *)
C21_OverallInRange ==
    op = "evaluate" =>
        LET o == ret.overall_score
            length_part == o.num - WeightedScores(ret) * (o.den \div 10000)
        IN /\ \A score \in {ret.keyword_overlap_score, ret.coverage_score,
                            ret.consistency_score} :
                  0 <= score /\ score <= Hundredths(100)
           /\ ret.length_ratio >= 0
           /\ o.den > 0
           /\ 0 <= length_part /\ length_part <= 15 * o.den
           /\ 0 <= o.num /\ o.num <= 100 * o.den

\* every score at 100 and the length ratio 1.0: the overall score is exactly 100
C21_Witness ==
    /\ op = "evaluate"
    /\ ret.keyword_overlap_score = Hundredths(100)
    /\ ret.coverage_score = Hundredths(100)
    /\ ret.consistency_score = Hundredths(100)
    /\ ret.length_ratio = Hundredths(1)
    /\ ret.overall_score.num = 100 * ret.overall_score.den

(* C22: evaluate has no error outcome: for every generated document,       *)
(* reference document and structural model, empty documents, empty keyword *)
(* sets, a model without functions and classes, a reference without words  *)
(* and a length ratio of exactly 0.9 included, it returns a result in      *)
(* which every score and every interpretation is defined.                  *)
C22_NoErrorOutcome ==
    op = "evaluate" =>
        /\ "raised" \notin DOMAIN ret
        /\ DOMAIN ret = {"keyword_overlap_score", "coverage_score", "length_ratio",
                         "consistency_score", "overall_score", "detailed_analysis"}
        /\ {ret.keyword_overlap_score, ret.coverage_score, ret.length_ratio,
            ret.consistency_score, ret.overall_score.num} \subseteq Nat
        /\ ret.overall_score.den \in Nat \ {0}
        /\ DOMAIN ret.detailed_analysis
               = {"keyword_overlap", "coverage", "length_ratio", "consistency"}
        /\ \A metric \in DOMAIN ret.detailed_analysis :
               ret.detailed_analysis[metric].interpretation # ""

\* nine words against ten: the length ratio is exactly 0.9
C22_Witness ==
    /\ op = "evaluate"
    /\ Len(str_words(arg.ai_docs)) = 9
    /\ Len(str_words(arg.human_docs)) = 10
    /\ ret.length_ratio = 90

\* evaluate returned for an empty document, an empty reference and an empty model
C22_WitnessEmpty ==
    /\ op = "evaluate"
    /\ arg.ai_docs = ""
    /\ arg.human_docs = ""
    /\ arg.code_structure.functions = <<>>
    /\ arg.code_structure.classes = <<>>
    /\ ret.coverage_score = Hundredths(100)

\* ------------------------------------------------------ claims on coverage
\* the place at of docs lies inside an occurrence of one of the names
InsideOccurrence(docs, at, names) ==
    \E name \in names : \E i \in 1..Len(docs) :
        /\ i + Len(name) - 1 <= Len(docs)
        /\ str_lower(SubSeq(docs, i, i + Len(name) - 1)) = str_lower(name)
        /\ i <= at /\ at <= i + Len(name) - 2

NoElements(code_structure) ==
    code_structure.functions = <<>> /\ code_structure.classes = <<>>

(* C23 as stated: coverage is 100 when the model has no functions and no   *)
(* classes, and for a fixed model a generated text obtained from another   *)
(* by inserting element names never has lower coverage.                    *)
C23_MonotoneUnderInsertion ==
    op = "calculate_coverage" =>
        /\ NoElements(arg.code_structure) => ret = Hundredths(100)
        /\ "before" \in DOMAIN arg => ret >= arg.before

(* C23 as amended: coverage is 100 when the model has no functions and no  *)
(* classes, and for a fixed model a generated text obtained from another   *)
(* by inserting element names, none of them inside an occurrence of an     *)
(* element name, never has lower coverage.                                 *)
C23_MonotoneOutsideOccurrences ==
    op = "calculate_coverage" =>
        /\ NoElements(arg.code_structure) => ret = Hundredths(100)
        /\ ("before" \in DOMAIN arg
            /\ ~InsideOccurrence(arg.into, arg.at, ElementNames(arg.code_structure)))
           => ret >= arg.before

\* a name inserted next to a documented name raised the coverage from 50 to 100
C23_Witness ==
    /\ op = "calculate_coverage"
    /\ "before" \in DOMAIN arg
    /\ arg.at \in 1..(Len(arg.into) - 1)
    /\ ~InsideOccurrence(arg.into, arg.at, ElementNames(arg.code_structure))
    /\ arg.before = Hundredths(50)
    /\ ret = Hundredths(100)

\* a model without elements has coverage 100 on a document that is not empty
C23_WitnessNoElements ==
    /\ op = "calculate_coverage"
    /\ NoElements(arg.code_structure)
    /\ arg.docs # ""
    /\ ret = Hundredths(100)

\* --------------------------------------------------- claims on consistency
SectionWords == {"Args", "Parameters", "Returns", "Examples"}

\* the lines of docs, without the white space around each
StrippedLines(docs) ==
    LET lines == str_split(docs, "\n") IN [j \in 1..Len(lines) |-> str_strip(lines[j])]

\* docs has a line that is the header, indented or not
HasHeader(docs, header) == header \in SeqToSet(StrippedLines(docs))

\* the section headers of docs in any letter case, indented or not
HeaderLines(docs) ==
    {line \in SeqToSet(StrippedLines(docs)) :
        \E h \in SectionWords : str_lower(line) = str_lower(h) \o ":"}

UniformHeaderCasing(docs) ==
    \/ \A line \in HeaderLines(docs) : IsUpper(Char(line, 1))
    \/ \A line \in HeaderLines(docs) : IsLower(Char(line, 1))

\* a line "name: description"
IsDescriptionLine(line) ==
    \E c \in 2..(Len(line) - 1) :
        /\ Char(line, c) = ":"
        /\ \A i \in 1..(c - 1) : IsWordChar(Char(line, i))

HasDescriptionLine(docs) ==
    \E line \in SeqToSet(StrippedLines(docs)) : IsDescriptionLine(line)

\* one of the section headers stands at the very start of its line
SomeHeaderStartsLine(docs) ==
    \E line \in SeqToSet(str_split(docs, "\n")) :
        \E h \in SectionWords : StartsWith(str_lower(line), str_lower(h) \o ":")

WellFormedDocument(docs) ==
    /\ HasHeader(docs, "Args:")
    /\ HasHeader(docs, "Returns:")
    /\ Contains(docs, "Example")
    /\ UniformHeaderCasing(docs)
    /\ HasDescriptionLine(docs)

(* C24 as stated: consistency is 100 for every document that contains an   *)
(* 'Args:' header, a 'Returns:' header, the token 'Example', uniform       *)
(* header casing and at least one 'name: description' line.                *)
C24_WellFormedScores100 ==
    (op = "calculate_consistency" /\ WellFormedDocument(arg.docs)) =>
        ret = Hundredths(100)

(* C24 as amended: consistency is 100 for every document that contains an  *)
(* 'Args:' header, a 'Returns:' header, the token 'Example', uniform       *)
(* header casing and at least one 'name: description' line, when at least  *)
(* one of its section headers starts its line.                             *)
C24_WellFormedAtLineStartScores100 ==
    (op = "calculate_consistency" /\ WellFormedDocument(arg.docs)
     /\ SomeHeaderStartsLine(arg.docs)) =>
        ret = Hundredths(100)

\* the Args: header indented and the Returns: header at the start of its line
C24_Witness ==
    /\ op = "calculate_consistency"
    /\ WellFormedDocument(arg.docs)
    /\ SomeHeaderStartsLine(arg.docs)
    /\ StartsWith(arg.docs, "    Args:")
    /\ ret = Hundredths(100)

(* C30: check 5 of calculate_consistency, the parameter-line check, passes *)
(* for every document, so the consistency score is never 0: it is one of   *)
(* 20, 40, 60, 80 and 100, and equals 100 x passed checks / 5.             *)
C30_ParameterCheckAlwaysPasses ==
    op = "calculate_consistency" =>
        LET checks == consistency_checks(arg.docs)
            passed == Cardinality({j \in 1..Len(checks) : checks[j]})
        IN /\ Len(checks) = 5
           /\ checks[5]
           /\ ret \in {Hundredths(20), Hundredths(40), Hundredths(60), Hundredths(80),
                       Hundredths(100)}
           /\ ret * 5 = Hundredths(100) * passed

\* a document without any parameter line on which only check 5 passes: 20
C30_Witness ==
    /\ op = "calculate_consistency"
    /\ param_lines(arg.docs) = {}
    /\ ret = Hundredths(20)

\* ------------------------------- claims on length ratio and keyword overlap
\* the whitespace-delimited words of text: the places where a word begins
WordCount(text) ==
    Cardinality({i \in 1..Len(text) :
                    /\ Char(text, i) \notin WhitespaceChars
                    /\ i = 1 \/ Char(text, i - 1) \in WhitespaceChars})

(* C25: the length ratio is exactly 1.0 when the reference has no          *)
(* whitespace-delimited word, and otherwise wordCount(generated) /         *)
(* wordCount(reference) rounded to two decimals, 2.0 for 'a b c d' against *)
(* 'a b'; it is never negative.                                            *)
C25_LengthRatio ==
    op = "calculate_length_ratio" =>
        LET generated == WordCount(arg.ai_docs)
            reference == WordCount(arg.human_docs)
        IN /\ reference = 0 => ret = Hundredths(1)
           /\ reference > 0 => 2 * Abs(ret * reference - 100 * generated) <= reference
           /\ (arg.ai_docs = "a b c d" /\ arg.human_docs = "a b") => ret = Hundredths(2)
           /\ ret >= 0

\* two words against three: 0.67, a quotient that rounding changes
C25_Witness ==
    /\ op = "calculate_length_ratio"
    /\ WordCount(arg.ai_docs) = 2
    /\ WordCount(arg.human_docs) = 3
    /\ ret = 67

\* the example of the claim
C25_WitnessExample ==
    /\ op = "calculate_length_ratio"
    /\ arg.ai_docs = "a b c d"
    /\ arg.human_docs = "a b"
    /\ ret = Hundredths(2)

(* C26: keyword overlap is symmetric in its two documents:                 *)
(* calculate_keyword_overlap(A, B) = calculate_keyword_overlap(B, A).      *)
C26_OverlapSymmetric ==
    (op = "calculate_keyword_overlap" /\ "first" \in DOMAIN arg) => ret = arg.first

\* two documents with different keyword sets that share a keyword, both ways
C26_Witness ==
    /\ op = "calculate_keyword_overlap"
    /\ "first" \in DOMAIN arg
    /\ Cardinality(extract_keywords(arg.ai_docs)) # Cardinality(extract_keywords(arg.human_docs))
    /\ 0 < ret /\ ret < Hundredths(100)

\* ------------------------------------------- claims on CodeParser's state
(* C27: no state carried by a CodeParser affects later results: after any  *)
(* sequence of validate_syntax, extract_functions, extract_classes and     *)
(* get_structure calls on one parser, extract_functions(code) and          *)
(* extract_classes(code) return exactly the functions and classes of the   *)
(* text of that call, which is what a fresh parser returns for it, and an  *)
(* empty list when that text is syntactically invalid.                     *)
C27_ExtractionHistoryIndependent ==
    /\ op = "extract_functions" =>
           /\ ret = extract_functions(NewParser, arg).ret
           /\ ~ast_parse(arg).ok => ret = <<>>
    /\ op = "extract_classes" =>
           /\ ret = extract_classes(NewParser, arg).ret
           /\ ~ast_parse(arg).ok => ret = <<>>

\* ------------------------------ claims on the generator and the evaluator
\* the parameters of a function record other than the receiver
NonReceiverParams(func_info) == SelectSeq(func_info.params, LAMBDA param : param # "self")

(* C28: a document the formatter produces for a function with at least one *)
(* parameter other than the receiver, a return description and examples    *)
(* passes the evaluator's section-header checks (parameter header present, *)
(* return header present, examples present, uniform header casing) in both *)
(* output styles: its consistency score is 100 in Google style and in      *)
(* NumPy style.                                                            *)
C28_GeneratedDocsConsistent ==
    (/\ op = "calculate_consistency"
     /\ str_lower(arg.style) \in {"google", "numpy"}
     /\ NonReceiverParams(arg.func_info) # <<>>
     /\ arg.ai_output.param_descriptions # <<>>
     /\ arg.ai_output.return_description # ""
     /\ arg.ai_output.examples # <<>>)
    => /\ \A j \in 1..4 : consistency_checks(arg.docs)[j]
       /\ ret = Hundredths(100)

(* C29: the document the pipeline generates for a valid model, each        *)
(* module-level function synthesized, rendered and combined by             *)
(* format_output, has coverage 100 against the same model: every function  *)
(* and every class counted in the coverage total is counted as documented  *)
(* in the pipeline's own output.                                           *)
C29_PipelineCoversItsModel ==
    /\ (op = "generate" /\ "ai_docs" \in DOMAIN ret) =>
           /\ calculate_coverage(ret.ai_docs, ret.code_structure) = Hundredths(100)
           /\ \A name \in ElementNames(ret.code_structure) :
                  is_documented(name, ret.ai_docs)
    /\ (op = "evaluate" /\ "coverage_score" \in DOMAIN ret) =>
           ret.coverage_score = Hundredths(100)

====
